---- MODULE Spec2Model ----
(***************************************************************************)
(* Connection-and-layout engine of the block editor: rendered connections, *)
(* the per-kind spatial index they register in, visibility propagation and *)
(* nearest-match search; and the fields of a block: the validation        *)
(* pipeline, the text editor and the dropdown.                             *)
(***************************************************************************)
EXTENDS Integers, Sequences, FiniteSets, TLC

VARIABLES
  live,       \* the blocks that exist in the workspace
  conn,       \* per connection: x, y, hidden, inDB, targetConnection, offsetInBlock
  db,         \* per kind: the ordered index (a sequence of connections)
  collapsed,  \* per block: the collapsed flag
  thrown,     \* the error the last operation threw, or NONE
  torn,       \* history: a coordinate was written while its connection was in the index
  disorder,   \* history: an index operation ran on an index that was out of order
  touched,    \* history: the connections moveTo or setHidden has been called on
  ws,         \* the workspace: drag mode, selection, layout direction, and per
              \* block the movable flag, the flyout flag and the position
  lastOp,     \* history: the last operation and its arguments
  result,     \* the value returned by the last operation that returns one
  field,      \* a field of a block, its editor, and the effects of the last
              \* operation on it
  cacheReference_,  \* Blockly.Field: the number of startCache calls not yet stopped
  cacheWidths_      \* Blockly.Field: the cached text widths, or null

vars ==
  <<live, conn, db, collapsed, thrown, torn, disorder, touched, ws, lastOp, result,
    field, cacheReference_, cacheWidths_>>

----------------------------------------------------------------------------
(* Bounds *)

\* absolute coordinates handed to moveTo range over 0..MaxCoord
MaxCoord == 1

\* the text in the editor grows by keypresses up to MaxLen characters
MaxLen == 2

\* the doubling validator accepts numbers up to MaxNum
MaxNum == 99

\* startCache calls nest up to MaxDepth deep
MaxDepth == 3

----------------------------------------------------------------------------
(* The fixed population: blocks, their connections, the connection kinds *)

NONE == "none"

INPUT_VALUE == "INPUT_VALUE"
OUTPUT_VALUE == "OUTPUT_VALUE"
NEXT_STATEMENT == "NEXT_STATEMENT"
PREVIOUS_STATEMENT == "PREVIOUS_STATEMENT"

Kinds == {INPUT_VALUE, OUTPUT_VALUE, NEXT_STATEMENT, PREVIOUS_STATEMENT}

OPPOSITE_TYPE(kind) ==
  CASE kind = INPUT_VALUE -> OUTPUT_VALUE
    [] kind = OUTPUT_VALUE -> INPUT_VALUE
    [] kind = NEXT_STATEMENT -> PREVIOUS_STATEMENT
    [] kind = PREVIOUS_STATEMENT -> NEXT_STATEMENT

Blocks == {"b0", "b1", "b2", "b3", "b4", "b5", "b6", "b7"}

\* each block's connections in the order getConnections lists them:
\* output, previous, next, then the inputs
BlockConnections(b) ==
  CASE b = "b0" -> <<"in0a", "in0b">>
    [] b = "b1" -> <<"in1">>
    [] b = "b2" -> <<"out2", "in2">>
    [] b = "b3" -> <<"out3", "in3">>
    [] b = "b4" -> <<"out4">>
    [] b = "b5" -> <<"nx5">>
    [] b = "b6" -> <<"pv6">>
    [] b = "b7" -> <<"pv7", "nx7", "in7">>

Range(seq) == {seq[i] : i \in 1..Len(seq)}

Conns == UNION {Range(BlockConnections(b)) : b \in Blocks}

\* the kind each connection is constructed with
ConnectionType ==
  [c \in Conns |->
     CASE c \in {"in0a", "in0b", "in1", "in2", "in3", "in7"} -> INPUT_VALUE
       [] c \in {"out2", "out3", "out4"} -> OUTPUT_VALUE
       [] c \in {"nx5", "nx7"} -> NEXT_STATEMENT
       [] c \in {"pv6", "pv7"} -> PREVIOUS_STATEMENT]

type(c) == ConnectionType[c]

\* the block each connection is constructed on
ConnectionSource ==
  [c \in Conns |-> CHOOSE b \in Blocks : c \in Range(BlockConnections(b))]

sourceBlock(c) == ConnectionSource[c]

ConnectionsOf(blocks) == {c \in Conns : sourceBlock(c) \in blocks}

LiveConns == ConnectionsOf(live)

----------------------------------------------------------------------------
(* The program state the connection operations read and write, as a record *)

State ==
  [conn |-> conn, db |-> db, collapsed |-> collapsed, thrown |-> thrown,
   torn |-> torn, disorder |-> disorder, touched |-> touched, ws |-> ws]

\* the record of the last Block.moveBy of an operation: none yet
NotMoved == [block |-> NONE, dx |-> 0, dy |-> 0]

\* the state an operation starts in: nothing thrown yet, no block moved yet,
\* no call made into the renderer yet
Start == [State EXCEPT !.thrown = NONE, !.ws.moved = NotMoved, !.ws.log = <<>>]

Threw(s) == s.thrown # NONE

throw(s, msg) == IF Threw(s) THEN s ELSE [s EXCEPT !.thrown = msg]

\* a connection as the base constructor leaves it: not hidden, not yet in the index
Connection ==
  [x |-> 0, y |-> 0, hidden |-> FALSE, inDB |-> FALSE,
   targetConnection |-> NONE]

RenderedConnection == Connection @@ [offsetInBlock |-> <<0, 0>>]

----------------------------------------------------------------------------
(* The spatial index *)

\* the index order: by x, ties by y
NotAfter(s, a, b) ==
  \/ s.conn[a].x < s.conn[b].x
  \/ s.conn[a].x = s.conn[b].x /\ s.conn[a].y <= s.conn[b].y

Sorted(s, kind) ==
  \A i \in 1..Len(s.db[kind]) : \A j \in i..Len(s.db[kind]) :
    NotAfter(s, s.db[kind][i], s.db[kind][j])

\* the insertion point: behind every entry that is not after the connection
findPositionForConnection(s, kind, c) ==
  Cardinality({i \in 1..Len(s.db[kind]) : NotAfter(s, s.db[kind][i], c)})

InsertAt(seq, k, e) == SubSeq(seq, 1, k) \o <<e>> \o SubSeq(seq, k + 1, Len(seq))

RemoveAt(seq, k) == SubSeq(seq, 1, k - 1) \o SubSeq(seq, k + 1, Len(seq))

\* an index operation starts: note whether the index it sees is in order
Observe(s, kind) == [s EXCEPT !.disorder = @ \/ ~Sorted(s, kind)]

addConnection(s, c) ==
  IF Threw(s) THEN s
  ELSE IF s.conn[c].inDB THEN throw(s, "Connection already in database.")
  ELSE LET kind == type(c)
           position == findPositionForConnection(s, kind, c)
       IN [Observe(s, kind) EXCEPT !.db[kind] = InsertAt(@, position, c),
                                   !.conn[c].inDB = TRUE]

removeConnection(s, c) ==
  IF Threw(s) THEN s
  ELSE IF ~s.conn[c].inDB THEN throw(s, "Connection not in database.")
  ELSE LET kind == type(c)
           found == {i \in 1..Len(s.db[kind]) : s.db[kind][i] = c}
       IN IF found = {}
          THEN throw(s, "Unable to find connection in connectionDB.")
          ELSE [Observe(s, kind) EXCEPT
                  !.db[kind] = RemoveAt(@, CHOOSE i \in found : \A j \in found : i <= j),
                  !.conn[c].inDB = FALSE]

----------------------------------------------------------------------------
(* Moving a connection *)

\* this.x = x; this.y = y
setXY(s, c, x, y) ==
  IF Threw(s) THEN s
  ELSE [s EXCEPT !.conn[c].x = x, !.conn[c].y = y,
                 !.torn = @ \/ s.conn[c].inDB]

Touch(s, c) == [s EXCEPT !.touched = @ \cup {c}]

\* moveTo that writes the coordinates without taking the connection out first
moveTo_inPlace(s, c, x, y) ==
  LET s2 == setXY(Touch(s, c), c, x, y)
  IN IF ~s2.conn[c].hidden /\ ~s2.conn[c].inDB THEN addConnection(s2, c) ELSE s2

\* moveTo that forgets to take the connection out of the index
moveTo_noRemove(s, c, x, y) ==
  LET s2 == [Touch(s, c) EXCEPT !.conn[c].x = x, !.conn[c].y = y]
  IN IF ~s2.conn[c].hidden THEN addConnection(s2, c) ELSE s2

\* moveTo that puts the connection back whether or not it is hidden
moveTo_addHidden(s, c, x, y) ==
  LET s0 == Touch(s, c)
      s1 == IF s0.conn[c].inDB THEN removeConnection(s0, c) ELSE s0
  IN addConnection(setXY(s1, c, x, y), c)

moveTo(s, c, x, y) ==
  LET s0 == Touch(s, c)
      s1 == IF s0.conn[c].inDB THEN removeConnection(s0, c) ELSE s0
      s2 == setXY(s1, c, x, y)
  IN IF ~s2.conn[c].hidden THEN addConnection(s2, c) ELSE s2

\* moveBy that takes the deltas for absolute coordinates
moveBy_absolute(s, c, dx, dy) == moveTo(s, c, dx, dy)

moveBy(s, c, dx, dy) == moveTo(s, c, s.conn[c].x + dx, s.conn[c].y + dy)

\* moveToOffset that assigns the coordinates itself
moveToOffset_inPlace(s, c, blockTL) ==
  setXY(Touch(s, c), c, blockTL[1] + s.conn[c].offsetInBlock[1],
                        blockTL[2] + s.conn[c].offsetInBlock[2])

moveToOffset(s, c, blockTL) ==
  moveTo(s, c, blockTL[1] + s.conn[c].offsetInBlock[1],
               blockTL[2] + s.conn[c].offsetInBlock[2])

setOffsetInBlock(s, c, x, y) ==
  [s EXCEPT !.conn[c].offsetInBlock = <<x, y>>]

----------------------------------------------------------------------------
(* Hiding *)

\* setHidden that only sets the flag
setHidden_flagOnly(s, c, hidden) ==
  [Touch(s, c) EXCEPT !.conn[c].hidden = hidden]

\* setHidden that takes a hidden connection out but never puts one back
setHidden_noAdd(s, c, hidden) ==
  LET s1 == [Touch(s, c) EXCEPT !.conn[c].hidden = hidden]
  IN IF hidden /\ s1.conn[c].inDB THEN removeConnection(s1, c) ELSE s1

\* setHidden that does not ask whether the connection is in the index
setHidden_blind(s, c, hidden) ==
  LET s1 == [Touch(s, c) EXCEPT !.conn[c].hidden = hidden]
  IN IF hidden THEN removeConnection(s1, c) ELSE addConnection(s1, c)

setHidden(s, c, hidden) ==
  LET s1 == [Touch(s, c) EXCEPT !.conn[c].hidden = hidden]
  IN IF hidden /\ s1.conn[c].inDB THEN removeConnection(s1, c)
     ELSE IF ~hidden /\ ~s1.conn[c].inDB THEN addConnection(s1, c)
     ELSE s1

----------------------------------------------------------------------------
(* The block tree, as the target links define it *)

isSuperior(c) == type(c) \in {INPUT_VALUE, NEXT_STATEMENT}

targetBlock(s, c) ==
  IF s.conn[c].targetConnection = NONE THEN NONE
  ELSE sourceBlock(s.conn[c].targetConnection)

\* the one connection of the block with the given kind, or NONE
ConnectionOfKind(b, kind) ==
  LET cs == {c \in Range(BlockConnections(b)) : type(c) = kind}
  IN IF cs = {} THEN NONE ELSE CHOOSE c \in cs : TRUE

outputConnection(b) == ConnectionOfKind(b, OUTPUT_VALUE)
nextConnection(b) == ConnectionOfKind(b, NEXT_STATEMENT)
previousConnection(b) == ConnectionOfKind(b, PREVIOUS_STATEMENT)

getConnections(b) == BlockConnections(b)

RECURSIVE getDescendantsFrom(_, _, _)
getDescendants(s, b) == <<b>> \o getDescendantsFrom(s, b, 1)
\* the descendants reached through the block's connections i, i+1, ...
getDescendantsFrom(s, b, i) ==
  IF i > Len(BlockConnections(b)) THEN <<>>
  ELSE LET c == BlockConnections(b)[i]
           child == targetBlock(s, c)
       IN (IF isSuperior(c) /\ child # NONE
           THEN getDescendants(s, child) ELSE <<>>)
          \o getDescendantsFrom(s, b, i + 1)

----------------------------------------------------------------------------
(* Cascading visibility *)

RECURSIVE setHiddenEach(_, _, _)
\* for (j...) connections[j].setHidden(true)
setHiddenEach(s, connections, j) ==
  IF j > Len(connections) \/ Threw(s) THEN s
  ELSE setHiddenEach(setHidden(s, connections[j], TRUE), connections, j + 1)

RECURSIVE hideBlocks(_, _, _)
\* for (i...) hide all connections of blocks[i]
hideBlocks(s, blocks, i) ==
  IF i > Len(blocks) \/ Threw(s) THEN s
  ELSE hideBlocks(setHiddenEach(s, getConnections(blocks[i]), 1), blocks, i + 1)

\* hideAll that hides the attached block and not the blocks below it
hideAll_attachedOnly(s, c) ==
  LET s1 == setHidden(s, c, TRUE)
  IN IF s1.conn[c].targetConnection # NONE
     THEN hideBlocks(s1, <<targetBlock(s1, c)>>, 1)
     ELSE s1

hideAll(s, c) ==
  LET s1 == setHidden(s, c, TRUE)
  IN IF s1.conn[c].targetConnection # NONE
     THEN hideBlocks(s1, getDescendants(s1, targetBlock(s1, c)), 1)
     ELSE s1

Present(seq) == SelectSeq(seq, LAMBDA e : e # NONE)

RECURSIVE unhideAll(_, _)
RECURSIVE unhideEach(_, _, _, _)
\* for (i...) renderList.push.apply(renderList, connections[i].unhideAll())
unhideEach(s, connections, i, renderList) ==
  IF i > Len(connections) \/ Threw(s) THEN [s |-> s, renderList |-> renderList]
  ELSE LET r == unhideAll(s, connections[i])
       IN unhideEach(r.s, connections, i + 1, renderList \o r.renderList)

\* unhideAll that shows every connection of a collapsed block too
unhideAll_ignoresCollapsed(s, c) ==
  LET s1 == setHidden(s, c, FALSE)
      block == targetBlock(s1, c)
  IN IF type(c) # INPUT_VALUE /\ type(c) # NEXT_STATEMENT
     THEN [s |-> s1, renderList |-> <<>>]
     ELSE IF block = NONE THEN [s |-> s1, renderList |-> <<>>]
     ELSE LET r == unhideEach(s1, getConnections(block), 1, <<>>)
          IN IF Len(r.renderList) = 0
             THEN [s |-> r.s, renderList |-> <<block>>]
             ELSE r

\* unhideAll whose kind test guards the loop only: the attached block of an
\* output or previous connection is listed
unhideAll_listsTarget(s, c) ==
  LET s1 == setHidden(s, c, FALSE)
      block == targetBlock(s1, c)
  IN IF block = NONE THEN [s |-> s1, renderList |-> <<>>]
     ELSE IF type(c) # INPUT_VALUE /\ type(c) # NEXT_STATEMENT
     THEN [s |-> s1, renderList |-> <<block>>]
     ELSE LET connections ==
                IF s1.collapsed[block]
                THEN Present(<<outputConnection(block), nextConnection(block),
                               previousConnection(block)>>)
                ELSE getConnections(block)
              r == unhideEach(s1, connections, 1, <<>>)
          IN IF Len(r.renderList) = 0
             THEN [s |-> r.s, renderList |-> <<block>>]
             ELSE r

\* unhideAll that lists the attached block whether or not leaves were found
unhideAll_listsEveryBlock(s, c) ==
  LET s1 == setHidden(s, c, FALSE)
      block == targetBlock(s1, c)
  IN IF type(c) # INPUT_VALUE /\ type(c) # NEXT_STATEMENT
     THEN [s |-> s1, renderList |-> <<>>]
     ELSE IF block = NONE THEN [s |-> s1, renderList |-> <<>>]
     ELSE LET connections ==
                IF s1.collapsed[block]
                THEN Present(<<outputConnection(block), nextConnection(block),
                               previousConnection(block)>>)
                ELSE getConnections(block)
              r == unhideEach(s1, connections, 1, <<>>)
          IN [s |-> r.s, renderList |-> r.renderList \o <<block>>]

\* unhideAll that shows the connection and does not go down
unhideAll_selfOnly(s, c) ==
  [s |-> setHidden(s, c, FALSE), renderList |-> <<>>]

unhideAll(s, c) ==
  LET s1 == setHidden(s, c, FALSE)
      block == targetBlock(s1, c)
  IN IF type(c) # INPUT_VALUE /\ type(c) # NEXT_STATEMENT
     THEN [s |-> s1, renderList |-> <<>>]
     ELSE IF block = NONE THEN [s |-> s1, renderList |-> <<>>]
     ELSE LET connections ==
                IF s1.collapsed[block]
                THEN Present(<<outputConnection(block), nextConnection(block),
                               previousConnection(block)>>)
                ELSE getConnections(block)
              r == unhideEach(s1, connections, 1, <<>>)
          IN IF Len(r.renderList) = 0
             THEN [s |-> r.s, renderList |-> <<block>>]
             ELSE r

----------------------------------------------------------------------------
(* Connecting and disconnecting *)

\* a call into the renderer, recorded with the method that made it
Called(s, method, block, by) ==
  [s EXCEPT !.ws.log = Append(@, [method |-> method, block |-> block, by |-> by])]

updateDisabled(s, block, by) == Called(s, "updateDisabled", block, by)

initSvg(s, block, by) == Called(s, "initSvg", block, by)

\* the renderer lays the block out; the block is rendered from then on
render(s, block, by) ==
  [Called(s, "render", block, by) EXCEPT !.ws.rendered[block] = TRUE]

\* the value v, then what F makes of it: v is worked out once
Then(v, F(_)) == CHOOSE r \in {F(t) : t \in {v}} : TRUE

\* the base class breaks the link on both sides
Connection_disconnectInternal(s, c) ==
  LET otherConnection == s.conn[c].targetConnection
  IN [s EXCEPT !.conn[otherConnection].targetConnection = NONE,
               !.conn[c].targetConnection = NONE]

\* disconnectInternal that clears this side only
disconnectInternal_oneSided(s, c) ==
  [s EXCEPT !.conn[c].targetConnection = NONE]

disconnectInternal(s, c) ==
  LET otherConnection == s.conn[c].targetConnection
      parentBlock == sourceBlock(IF isSuperior(c) THEN c ELSE otherConnection)
      childBlock == sourceBlock(IF isSuperior(c) THEN otherConnection ELSE c)
  IN Then(Connection_disconnectInternal(s, c), LAMBDA s1 :
     Then(IF s1.ws.rendered[parentBlock]
          THEN render(s1, parentBlock, "disconnectInternal") ELSE s1, LAMBDA s2 :
     IF s2.ws.rendered[childBlock]
     THEN render(updateDisabled(s2, childBlock, "disconnectInternal"),
                 childBlock, "disconnectInternal")
     ELSE s2))

\* the base class frees both sides, then links them to each other
Connection_connect(s, parentConnection, childConnection) ==
  LET s1 == IF s.conn[childConnection].targetConnection # NONE
            THEN disconnectInternal(s, childConnection) ELSE s
      s2 == IF s1.conn[parentConnection].targetConnection # NONE
            THEN disconnectInternal(s1, parentConnection) ELSE s1
  IN [s2 EXCEPT !.conn[parentConnection].targetConnection = childConnection,
                !.conn[childConnection].targetConnection = parentConnection]

\* connect that lays out the parent block whatever the kind of the connection
connect_rendersParent(s, parentConnection, childConnection) ==
  LET parentBlock == sourceBlock(parentConnection)
      childBlock == sourceBlock(childConnection)
  IN Then(Connection_connect(s, parentConnection, childConnection), LAMBDA s1 :
     Then(IF s1.ws.rendered[parentBlock]
          THEN updateDisabled(s1, parentBlock, "connect") ELSE s1, LAMBDA s2 :
     Then(IF s2.ws.rendered[childBlock]
          THEN updateDisabled(s2, childBlock, "connect") ELSE s2, LAMBDA s3 :
     IF s3.ws.rendered[parentBlock] /\ s3.ws.rendered[childBlock]
     THEN render(s3, parentBlock, "connect")
     ELSE s3)))

connect(s, parentConnection, childConnection) ==
  LET parentBlock == sourceBlock(parentConnection)
      childBlock == sourceBlock(childConnection)
  IN Then(Connection_connect(s, parentConnection, childConnection), LAMBDA s1 :
     Then(IF s1.ws.rendered[parentBlock]
          THEN updateDisabled(s1, parentBlock, "connect") ELSE s1, LAMBDA s2 :
     Then(IF s2.ws.rendered[childBlock]
          THEN updateDisabled(s2, childBlock, "connect") ELSE s2, LAMBDA s3 :
     IF s3.ws.rendered[parentBlock] /\ s3.ws.rendered[childBlock]
     THEN IF type(parentConnection) \in {NEXT_STATEMENT, PREVIOUS_STATEMENT}
          THEN render(s3, childBlock, "connect")
          ELSE render(s3, parentBlock, "connect")
     ELSE s3)))

\* the inputs of a block: its value-input connections
Inputs(b) == SelectSeq(BlockConnections(b), LAMBDA c : type(c) = INPUT_VALUE)

RECURSIVE setVisibleEach(_, _, _, _)
\* for each input: visible ? connection.unhideAll() : connection.hideAll()
setVisibleEach(s, inputs, i, visible) ==
  IF i > Len(inputs) \/ Threw(s) THEN s
  ELSE setVisibleEach(IF visible THEN unhideAll(s, inputs[i]).s
                      ELSE hideAll(s, inputs[i]),
                      inputs, i + 1, visible)

setCollapsed(s, b, flag) ==
  IF s.collapsed[b] = flag THEN s
  ELSE [setVisibleEach(s, Inputs(b), 1, ~flag) EXCEPT !.collapsed[b] = flag]

----------------------------------------------------------------------------
(* Bumping a block away from a connection *)

DRAG_NONE == "DRAG_NONE"
DRAG_FREE == "DRAG_FREE"

\* the snap distance; its value is set outside the files modelled here
SNAP_RADIUS == 20

\* a workspace with nothing dragged or selected, laid out left to right, its
\* blocks movable, outside any flyout, at the origin, not yet rendered; no
\* connection has a shadow template, and undo recording is on
Workspace(blocks) ==
  [dragMode |-> DRAG_NONE, selected |-> NONE, selectClass |-> {}, RTL |-> FALSE,
   movable |-> [b \in blocks |-> TRUE], isInFlyout |-> [b \in blocks |-> FALSE],
   xy |-> [b \in blocks |-> <<0, 0>>], moved |-> NotMoved,
   rendered |-> [b \in blocks |-> FALSE], workspace |-> [b \in blocks |-> TRUE],
   shadowDom |-> [c \in ConnectionsOf(blocks) |-> NONE], recordUndo |-> TRUE,
   log |-> <<>>]

RECURSIVE getRootBlock(_, _)
\* the top of the chain of output / previous links above the block
getRootBlock(s, b) ==
  LET up == {c \in Range(BlockConnections(b)) :
               ~isSuperior(c) /\ s.conn[c].targetConnection # NONE}
  IN IF up = {} THEN b
     ELSE getRootBlock(s, targetBlock(s, CHOOSE c \in up : TRUE))

isMovable(s, b) == s.ws.movable[b]

addSelect(s, b) == [s EXCEPT !.ws.selectClass = @ \cup {b}]

removeSelect(s, b) == [s EXCEPT !.ws.selectClass = @ \ {b}]

RECURSIVE moveByEach(_, _, _, _, _)
\* every connection of the list moves by (dx, dy)
moveByEach(s, connections, i, dx, dy) ==
  IF i > Len(connections) \/ Threw(s) THEN s
  ELSE moveByEach(moveBy(s, connections[i], dx, dy), connections, i + 1, dx, dy)

RECURSIVE moveBlocks(_, _, _, _, _)
\* every block of the list, with its connections, moves by (dx, dy)
moveBlocks(s, blocks, i, dx, dy) ==
  IF i > Len(blocks) \/ Threw(s) THEN s
  ELSE LET s1 == [s EXCEPT !.ws.xy[blocks[i]] = <<@[1] + dx, @[2] + dy>>]
       IN moveBlocks(moveByEach(s1, getConnections(blocks[i]), 1, dx, dy),
                     blocks, i + 1, dx, dy)

\* the block moves, and with it the blocks below it and all their connections
Block_moveBy(s, b, dx, dy) ==
  [moveBlocks(s, getDescendants(s, b), 1, dx, dy) EXCEPT
     !.ws.moved = [block |-> b, dx |-> dx, dy |-> dy]]

\* the displacement that does not turn upward when the bump is reversed
displace_noFlip(s, c, staticConnection, reverse) ==
  LET dx == (s.conn[staticConnection].x + SNAP_RADIUS) - s.conn[c].x
      dy == (s.conn[staticConnection].y + SNAP_RADIUS) - s.conn[c].y
  IN <<IF s.ws.RTL THEN -dx ELSE dx, dy>>

\* the displacement that is not mirrored in a right-to-left workspace
displace_noMirror(s, c, staticConnection, reverse) ==
  LET dx == (s.conn[staticConnection].x + SNAP_RADIUS) - s.conn[c].x
      dy == (s.conn[staticConnection].y + SNAP_RADIUS) - s.conn[c].y
  IN <<dx, IF reverse THEN -dy ELSE dy>>

\* dx and dy of the bump: the snap margin beyond staticConnection, turned
\* upward when reversed, mirrored when right-to-left
displace(s, c, staticConnection, reverse) ==
  LET dx == (s.conn[staticConnection].x + SNAP_RADIUS) - s.conn[c].x
      dy == (s.conn[staticConnection].y + SNAP_RADIUS) - s.conn[c].y
  IN <<IF s.ws.RTL THEN -dx ELSE dx, IF reverse THEN -dy ELSE dy>>

\* the bump once no drag is in progress: choose the root to move, move it
bumpRootBlock(s, c, staticConnection) ==
  LET thisRoot == getRootBlock(s, sourceBlock(c))
  IN IF s.ws.isInFlyout[thisRoot] THEN s
     ELSE LET reverse == ~isMovable(s, thisRoot)
              rootBlock == IF reverse
                           THEN getRootBlock(s, sourceBlock(staticConnection))
                           ELSE thisRoot
          IN IF reverse /\ ~isMovable(s, rootBlock) THEN s
             ELSE LET static == IF reverse THEN c ELSE staticConnection
                      selected == s.ws.selected = rootBlock
                      s1 == IF selected THEN s ELSE addSelect(s, rootBlock)
                      d == displace(s, c, static, reverse)
                      s2 == Block_moveBy(s1, rootBlock, d[1], d[2])
                  IN IF selected THEN s2 ELSE removeSelect(s2, rootBlock)

\* bumpAwayFrom_ that does not look at the drag mode
bumpAwayFrom_whileDragging(s, c, staticConnection) ==
  bumpRootBlock(s, c, staticConnection)

bumpAwayFrom_(s, c, staticConnection) ==
  IF s.ws.dragMode # DRAG_NONE THEN s
  ELSE bumpRootBlock(s, c, staticConnection)

----------------------------------------------------------------------------
(* Tightening a pair, and respawning a shadow block *)

\* the root element of the block's drawing: there is one once it is rendered
getSvgRoot(s, block) == IF s.ws.rendered[block] THEN block ELSE NONE

\* tighten_ that moves the connections before it looks for the drawing
tighten_moveFirst(s, c) ==
  LET target == s.conn[c].targetConnection
      dx == s.conn[target].x - s.conn[c].x
      dy == s.conn[target].y - s.conn[c].y
      block == targetBlock(s, c)
      s1 == moveBlocks(s, getDescendants(s, block), 1, -dx, -dy)
  IN IF dx # 0 \/ dy # 0
     THEN IF getSvgRoot(s, block) = NONE THEN throw(s1, "block is not rendered.")
          ELSE s1
     ELSE s

\* the attached block is translated by the difference of the two positions,
\* and its connections and those of the blocks below it with it
tighten_(s, c) ==
  LET target == s.conn[c].targetConnection
      dx == s.conn[target].x - s.conn[c].x
      dy == s.conn[target].y - s.conn[c].y
  IN IF dx # 0 \/ dy # 0
     THEN LET block == targetBlock(s, c)
              svgRoot == getSvgRoot(s, block)
          IN IF svgRoot = NONE THEN throw(s, "block is not rendered.")
             ELSE moveBlocks(s, getDescendants(s, block), 1, -dx, -dy)
     ELSE s

\* a block just constructed, with its connections
newBlock(s, block) ==
  [s EXCEPT
     !.conn = @ @@ [c \in ConnectionsOf({block}) |-> RenderedConnection],
     !.collapsed = @ @@ [b \in {block} |-> FALSE],
     !.ws.movable = @ @@ [b \in {block} |-> TRUE],
     !.ws.isInFlyout = @ @@ [b \in {block} |-> FALSE],
     !.ws.xy = @ @@ [b \in {block} |-> <<0, 0>>],
     !.ws.rendered = @ @@ [b \in {block} |-> FALSE],
     !.ws.workspace = @ @@ [b \in {block} |-> TRUE],
     !.ws.shadowDom = @ @@ [c \in ConnectionsOf({block}) |-> NONE]]

getShadowDom(s, c) == s.ws.shadowDom[c]

\* The base class builds the block of the template and connects it here;
\* respawned tells whether it managed to.
Connection_respawnShadow(s, c, respawned) ==
  IF respawned
  THEN LET blockShadow == getShadowDom(s, c)
       IN connect(newBlock(s, blockShadow), c, outputConnection(blockShadow))
  ELSE s

\* respawnShadow that does not mind undo recording being off
respawnShadow_ignoresRecordUndo(s, c, respawned) ==
  LET parentBlock == sourceBlock(c)
      shadow == getShadowDom(s, c)
  IN IF s.ws.workspace[parentBlock] /\ shadow # NONE
     THEN Then(Connection_respawnShadow(s, c, respawned), LAMBDA s1 :
          Then(targetBlock(s1, c), LAMBDA blockShadow :
          IF blockShadow = NONE
          THEN throw(s1, "Couldn't respawn the shadow block that should exist here.")
          ELSE Then(render(initSvg(s1, blockShadow, "respawnShadow"),
                           blockShadow, "respawnShadow"), LAMBDA s2 :
               IF s2.ws.rendered[parentBlock]
               THEN render(s2, parentBlock, "respawnShadow") ELSE s2)))
     ELSE s

respawnShadow(s, c, respawned) ==
  LET parentBlock == sourceBlock(c)
      shadow == getShadowDom(s, c)
  IN IF s.ws.workspace[parentBlock] /\ shadow # NONE /\ s.ws.recordUndo
     THEN Then(Connection_respawnShadow(s, c, respawned), LAMBDA s1 :
          Then(targetBlock(s1, c), LAMBDA blockShadow :
          IF blockShadow = NONE
          THEN throw(s1, "Couldn't respawn the shadow block that should exist here.")
          ELSE Then(render(initSvg(s1, blockShadow, "respawnShadow"),
                           blockShadow, "respawnShadow"), LAMBDA s2 :
               IF s2.ws.rendered[parentBlock]
               THEN render(s2, parentBlock, "respawnShadow") ELSE s2)))
     ELSE s

----------------------------------------------------------------------------
(* Nearest-match search *)

\* The distance between two connections, as its square: the source takes the
\* square root, which is monotone, so every comparison is made on the squares.
\* distanceFrom with a sign slip in the x difference
distanceFrom_signSlip(s, c, otherConnection) ==
  LET xDiff == s.conn[c].x + s.conn[otherConnection].x
      yDiff == s.conn[c].y - s.conn[otherConnection].y
  IN xDiff * xDiff + yDiff * yDiff

distanceFrom(s, c, otherConnection) ==
  LET xDiff == s.conn[c].x - s.conn[otherConnection].x
      yDiff == s.conn[c].y - s.conn[otherConnection].y
  IN xDiff * xDiff + yDiff * yDiff

\* the base class: opposite kinds, and neither block below (or the same as) the other
Connection_isConnectionAllowed(s, c, candidate) ==
  /\ type(candidate) = OPPOSITE_TYPE(type(c))
  /\ sourceBlock(candidate) \notin Range(getDescendants(s, sourceBlock(c)))
  /\ sourceBlock(c) \notin Range(getDescendants(s, sourceBlock(candidate)))

\* isConnectionAllowed without the radius test
isConnectionAllowed_noRadius(s, c, candidate, maxRadius) ==
  Connection_isConnectionAllowed(s, c, candidate)

\* isConnectionAllowed that also turns down a candidate exactly maxRadius away
isConnectionAllowed_atRadius(s, c, candidate, maxRadius) ==
  IF distanceFrom(s, c, candidate) >= maxRadius * maxRadius THEN FALSE
  ELSE Connection_isConnectionAllowed(s, c, candidate)

\* isConnectionAllowed that looks at the distance and the kinds only
isConnectionAllowed_kindOnly(s, c, candidate, maxRadius) ==
  IF distanceFrom(s, c, candidate) > maxRadius * maxRadius THEN FALSE
  ELSE type(candidate) = OPPOSITE_TYPE(type(c))

isConnectionAllowed(s, c, candidate, maxRadius) ==
  IF distanceFrom(s, c, candidate) > maxRadius * maxRadius THEN FALSE
  ELSE Connection_isConnectionAllowed(s, c, candidate)

Abs(n) == IF n < 0 THEN -n ELSE n

RECURSIVE scanWhileInRange(_, _, _, _, _, _)
\* the entries from i on, stepping by step, until one is farther than
\* maxRadius in x alone
scanWhileInRange(s, index, i, step, c, maxRadius) ==
  IF i < 1 \/ i > Len(index) THEN <<>>
  ELSE IF Abs(s.conn[index[i]].x - s.conn[c].x) > maxRadius THEN <<>>
  ELSE <<index[i]>> \o scanWhileInRange(s, index, i + step, step, c, maxRadius)

RECURSIVE pickClosest(_, _, _, _, _, _)
\* the first allowed candidate of the scan that none before it is as close as
pickClosest(s, c, scan, i, maxRadius, best) ==
  IF i > Len(scan) THEN best
  ELSE LET temp == scan[i]
           better == /\ isConnectionAllowed(s, c, temp, maxRadius)
                     /\ \/ best = NONE
                        \/ distanceFrom(s, c, temp) < distanceFrom(s, c, best)
       IN pickClosest(s, c, scan, i + 1, maxRadius, IF better THEN temp ELSE best)

\* the search of the opposite kind's index, the connection taken to be at its
\* position plus dxy
searchForClosest(s, c, maxRadius, dxy) ==
  LET dragged == [s EXCEPT !.conn[c].x = @ + dxy[1], !.conn[c].y = @ + dxy[2]]
      kind == OPPOSITE_TYPE(type(c))
      index == s.db[kind]
      closestIndex == findPositionForConnection(dragged, kind, c)
      scan == scanWhileInRange(dragged, index, closestIndex + 1, 1, c, maxRadius)
              \o scanWhileInRange(dragged, index, closestIndex, -1, c, maxRadius)
      best == pickClosest(dragged, c, scan, 1, maxRadius, NONE)
  IN [connection |-> best,
      radius |-> IF best = NONE THEN maxRadius * maxRadius
                 ELSE distanceFrom(dragged, c, best)]

closest(s, c, maxLimit, dxy) == searchForClosest(s, c, maxLimit, dxy)

----------------------------------------------------------------------------
(* Fields: texts, validators, the validation pipeline *)

\* A text is a sequence of characters.  The two values of the language that
\* are not texts are sequences that no text equals.
null == <<"null">>
undefined == <<"undefined">>

DigitChars == <<"0", "1", "2", "3", "4", "5", "6", "7", "8", "9">>
Digits == Range(DigitChars)
DigitValue(ch) == (CHOOSE i \in 1..10 : DigitChars[i] = ch) - 1

\* the result of parseFloat on a text without a number at its start
NaN == -1

RECURSIVE LeadingDigits(_)
LeadingDigits(text) ==
  IF text = <<>> \/ Head(text) \notin Digits THEN <<>>
  ELSE <<Head(text)>> \o LeadingDigits(Tail(text))

RECURSIVE Number(_)
Number(digits) ==
  IF digits = <<>> THEN 0
  ELSE 10 * Number(SubSeq(digits, 1, Len(digits) - 1))
         + DigitValue(digits[Len(digits)])

\* parseFloat on texts of digits, letters and commas: the number written by
\* the digits the text starts with
parseFloat(text) ==
  IF LeadingDigits(text) = <<>> THEN NaN ELSE Number(LeadingDigits(text))

\* String(n) for a natural number
RECURSIVE StringOf(_)
StringOf(n) ==
  IF n < 10 THEN <<DigitChars[n + 1]>>
  ELSE StringOf(n \div 10) \o <<DigitChars[(n % 10) + 1]>>

numberValidator(text) ==
  IF text = null THEN null
  ELSE LET zeroed == [i \in 1..Len(text) |->
                        IF text[i] \in {"O", "o"} THEN "0" ELSE text[i]]
           stripped == SelectSeq(zeroed, LAMBDA ch : ch # ",")
           n == IF stripped = <<>> THEN 0 ELSE parseFloat(stripped)
       IN IF n = NaN THEN null ELSE StringOf(n)

\* The validator of the field's class: the one of Field accepts every text as
\* it is; a numeric class checks the text as numberValidator does; a class
\* may also accept without returning anything.
ClassValidators == {"Field", "number", "silent"}

classValidator(f, text) ==
  CASE f.classValidator = "Field" -> text
    [] f.classValidator = "number" -> numberValidator(text)
    [] f.classValidator = "silent" -> undefined

\* The validators a caller may install on a field: one that doubles a number
\* of up to MaxNum and rejects everything else, one that rejects every
\* text, one that accepts without returning anything.
UserValidators == {NONE, "double", "reject", "keep"}

getValidator(f) == f.validator_

userValidator(f, text) ==
  CASE f.validator_ = "double" ->
         IF text # <<>> /\ Range(text) \subseteq Digits /\ 2 * Number(text) <= MaxNum
           THEN StringOf(2 * Number(text))
           ELSE null
    [] f.validator_ = "reject" -> null
    [] f.validator_ = "keep" -> undefined

\* one call of a validator, as callValidator makes them
Call(fn, text) == [fn |-> fn, text |-> text]

\* callValidator, had it handed the caller's validator the text as proposed
callValidator_rawToUser(f, text) ==
  LET classResult == classValidator(f, text)
      classCall == <<Call("classValidator", text)>>
  IN IF classResult = null
       THEN [value |-> null, calls |-> classCall]
       ELSE IF getValidator(f) # NONE
         THEN LET userResult == userValidator(f, text)
                  calls == classCall \o <<Call("validator_", text)>>
              IN IF userResult = null
                   THEN [value |-> null, calls |-> calls]
                   ELSE [value |-> IF userResult # undefined THEN userResult ELSE text,
                         calls |-> calls]
         ELSE [value |-> IF classResult # undefined THEN classResult ELSE text,
               calls |-> classCall]

\* callValidator returns .value; .calls lists the validators it has called
callValidator(f, text) ==
  LET classResult == classValidator(f, text)
      classCall == <<Call("classValidator", text)>>
  IN IF classResult = null
       THEN [value |-> null, calls |-> classCall]
       ELSE LET text1 == IF classResult # undefined THEN classResult ELSE text
            IN IF getValidator(f) # NONE
                 THEN LET userResult == userValidator(f, text1)
                          calls == classCall \o <<Call("validator_", text1)>>
                      IN IF userResult = null
                           THEN [value |-> null, calls |-> calls]
                           ELSE [value |-> IF userResult # undefined
                                             THEN userResult ELSE text1,
                                 calls |-> calls]
                 ELSE [value |-> text1, calls |-> classCall]

----------------------------------------------------------------------------
(* Fields: the field, its editor, and the effects of an operation on it *)

\* no editor has been made yet
NoInput ==
  [value |-> <<>>, defaultValue |-> <<>>, oldValue_ |-> null, invalid |-> FALSE]

\* A field: its class, display text and stored value, its validators and
\* restrictor, the block it is on and whether that block is rendered, the
\* options of a dropdown; then the environment: whether events are recorded,
\* the browser, whether the editor is open, the editor's input element; then
\* the effects of the last operation, in order.
Field(class, text) ==
  [class |-> class, text |-> text, value |-> text,
   classValidator |-> "Field", validator_ |-> NONE, restrictor_ |-> NONE,
   sourceBlock |-> NONE, rendered |-> FALSE, menuGenerator_ |-> <<>>,
   enabled |-> TRUE, userAgent |-> "WEBKIT",
   editing |-> FALSE, htmlInput |-> NoInput, log |-> <<>>]

\* the field an operation starts with: no effects yet
StartField == [field EXCEPT !.log = <<>>]

Effect(f, e) == [f EXCEPT !.log = Append(@, [e |-> e, old |-> <<>>, new |-> <<>>])]

\* Blockly.Events.fire(new Blockly.Events.Change(...))
Fire(f, old, new) ==
  [f EXCEPT !.log = Append(@, [e |-> "change", old |-> old, new |-> new])]

\* the restrictors a text input may have: none, or one for digits
Restrictors == {NONE, "[0-9]"}

test(restrictor, char) == restrictor = "[0-9]" /\ char \in Digits

\* this.text = ...
Write(f, text) ==
  [f EXCEPT !.text = text,
            !.log = Append(@, [e |-> "text", old |-> f.text, new |-> text])]

Field_setText(f, newText) ==
  IF newText = null THEN f
  ELSE IF newText = f.text THEN f
  ELSE LET f1 == Write(f, newText)
       IN IF f1.sourceBlock # NONE /\ f1.rendered
            THEN Effect(Effect(f1, "render"), "bumpNeighbours")
            ELSE f1

\* FieldTextInput.setText, had it fired without asking whether events are
\* recorded
FieldTextInput_setText_alwaysFires(f, newText) ==
  IF newText = null THEN f
  ELSE IF newText = f.text THEN f
  ELSE Field_setText(Fire(f, f.text, newText), newText)

FieldTextInput_setText(f, newText) ==
  IF newText = null THEN f
  ELSE IF newText = f.text THEN f
  ELSE Field_setText(
         IF f.sourceBlock # NONE /\ f.enabled THEN Fire(f, f.text, newText) ELSE f,
         newText)

FieldDropdown_setText(f, text) ==
  IF text = null \/ text = f.text THEN f
  ELSE LET f1 == Write(f, text)
       IN IF f1.sourceBlock # NONE /\ f1.rendered
            THEN Effect(Effect(f1, "render"), "bumpNeighbours")
            ELSE f1

\* this.setText(...) on a field of any class
setText(f, newText) ==
  CASE f.class = "Field" -> Field_setText(f, newText)
    [] f.class = "FieldTextInput" -> FieldTextInput_setText(f, newText)
    [] f.class = "FieldDropdown" -> FieldDropdown_setText(f, newText)

getText(f) == f.text

\* this.getValue() on a field of any class
getValue(f) == IF f.class = "FieldDropdown" THEN f.value ELSE getText(f)

\* Field.setValue, had it not compared the new value with the old one
Field_setValue_unconditional(f, newValue) ==
  IF newValue = null THEN f
  ELSE setText(
         IF f.sourceBlock # NONE /\ f.enabled
           THEN Fire(f, getValue(f), newValue) ELSE f,
         newValue)

Field_setValue(f, newValue) ==
  IF newValue = null THEN f
  ELSE LET oldValue == getValue(f)
       IN IF oldValue = newValue THEN f
          ELSE setText(
                 IF f.sourceBlock # NONE /\ f.enabled
                   THEN Fire(f, oldValue, newValue) ELSE f,
                 newValue)

FieldTextInput_setValue(f, newValue) ==
  IF newValue = null THEN f
  ELSE LET validated == IF f.sourceBlock # NONE
                          THEN callValidator(f, newValue).value ELSE null
       IN Field_setValue(f, IF validated # null THEN validated ELSE newValue)

getOptions(f) == f.menuGenerator_

\* the places in the option list whose value is the one looked up
Matching(options, newValue) == {i \in 1..Len(options) : options[i][2] = newValue}

\* FieldDropdown.setValue, had it shown the last option of the value
FieldDropdown_setValue_lastOption(f, newValue) ==
  IF newValue = null \/ newValue = f.value THEN f
  ELSE LET f1 == IF f.sourceBlock # NONE /\ f.enabled
                   THEN Fire(f, f.value, newValue) ELSE f
           f2 == [f1 EXCEPT !.value = newValue]
           options == getOptions(f2)
           found == Matching(options, newValue)
       IN IF found # {}
            THEN LET i == CHOOSE i \in found : \A j \in found : i >= j
                 IN setText(f2, options[i][1])
            ELSE setText(f2, newValue)

FieldDropdown_setValue(f, newValue) ==
  IF newValue = null \/ newValue = f.value THEN f
  ELSE LET f1 == IF f.sourceBlock # NONE /\ f.enabled
                   THEN Fire(f, f.value, newValue) ELSE f
           f2 == [f1 EXCEPT !.value = newValue]
           options == getOptions(f2)
           found == Matching(options, newValue)
       IN IF found # {}
            THEN LET i == CHOOSE i \in found : \A j \in found : i <= j
                 IN setText(f2, options[i][1])
            ELSE setText(f2, newValue)

\* this.setValue(...) on a field of any class
setValue(f, newValue) ==
  CASE f.class = "Field" -> Field_setValue(f, newValue)
    [] f.class = "FieldTextInput" -> FieldTextInput_setValue(f, newValue)
    [] f.class = "FieldDropdown" -> FieldDropdown_setValue(f, newValue)

validate(f) ==
  [f EXCEPT !.htmlInput.invalid =
     f.sourceBlock # NONE /\ callValidator(f, f.htmlInput.value).value = null]

\* widgetDispose_, had it saved an edit that does not validate
widgetDispose_keepsInvalid(f) ==
  LET text == f.htmlInput.value
      text1 == callValidator(f, text).value
      saved == IF f.sourceBlock # NONE /\ text1 # null THEN text1 ELSE text
      f1 == setText(Effect(f, "widgetDispose_"), saved)
  IN IF f1.rendered THEN Effect(f1, "Field.render") ELSE f1

\* the closure widgetDispose_ returns: the edit is saved if it validates, and
\* the handlers of the input element are unbound
widgetDispose_(f) ==
  LET text == f.htmlInput.value
      text1 == callValidator(f, text).value
      saved == IF f.sourceBlock # NONE
                 THEN IF text1 = null THEN f.htmlInput.defaultValue ELSE text1
                 ELSE text
      f1 == setText(Effect(f, "widgetDispose_"), saved)
  IN IF f1.rendered THEN Effect(f1, "Field.render") ELSE f1

\* the closure widgetDisposeAnimationFinished_ returns: the input element is
\* let go
widgetDisposeAnimationFinished_(f) == [f EXCEPT !.htmlInput = NoInput]

\* Blockly.WidgetDiv.hide(): the widget's owner is disposed of, if it has one,
\* and the animation of the disposal runs to its end
WidgetDiv_hide(f) ==
  IF f.editing
    THEN widgetDisposeAnimationFinished_([widgetDispose_(f) EXCEPT !.editing = FALSE])
    ELSE f

\* Blockly.WidgetDiv.show(...), the new input element, its first validation
\* and the binding of its handlers
showEditor(f) ==
  validate([f EXCEPT !.editing = TRUE,
                     !.htmlInput = [value |-> f.text, defaultValue |-> f.text,
                                    oldValue_ |-> null, invalid |-> FALSE]])

enterKey == "Enter"
escKey == "Escape"
tabKey == "Tab"

\* onHtmlInputKeyDown_, had Escape put the default back without hiding
onHtmlInputKeyDown_escStays(f, e) ==
  IF e.keyCode = enterKey THEN WidgetDiv_hide(f)
  ELSE IF e.keyCode = escKey
    THEN [f EXCEPT !.htmlInput.value = f.htmlInput.defaultValue]
  ELSE IF e.keyCode = tabKey THEN Effect(WidgetDiv_hide(f), "preventDefault")
  ELSE f

onHtmlInputKeyDown_(f, e) ==
  IF e.keyCode = enterKey THEN WidgetDiv_hide(f)
  ELSE IF e.keyCode = escKey
    THEN WidgetDiv_hide([f EXCEPT !.htmlInput.value = f.htmlInput.defaultValue])
  ELSE IF e.keyCode = tabKey THEN Effect(WidgetDiv_hide(f), "preventDefault")
  ELSE f

\* the letters of select all, copy, paste and cut
GECKO_KEYCODE_WHITELIST == {"a", "c", "v", "x"}

\* the event is a keypress the restrictor refuses (no key pressed here is a
\* control character, which Gecko also lets through)
Restricted(f, e) ==
  /\ e.type = "keypress"
  /\ f.restrictor_ # NONE
  /\ LET isWhitelisted == /\ f.userAgent = "GECKO"
                          /\ e.ctrlKey
                          /\ e.keyCode \in GECKO_KEYCODE_WHITELIST
     IN ~isWhitelisted /\ ~test(f.restrictor_, e.keyCode)

onHtmlInputChange_(f, e) ==
  IF Restricted(f, e) THEN Effect(f, "preventDefault")
  ELSE LET text == f.htmlInput.value
       IN IF text # f.htmlInput.oldValue_
            THEN validate(setText([f EXCEPT !.htmlInput.oldValue_ = text], text))
            ELSE IF f.userAgent = "WEBKIT" THEN Effect(f, "render") ELSE f

----------------------------------------------------------------------------
(* The cache of text widths *)

\* The class-level state of Blockly.Field.  cacheWidths_ is null or an object,
\* whose entries are kept in the order they were first set.
NullWidths == [isNull |-> TRUE, entries |-> <<>>]
EmptyWidths == [isNull |-> FALSE, entries |-> <<>>]

Statics == [cacheReference_ |-> cacheReference_, cacheWidths_ |-> cacheWidths_]

TextElement(textContent, className) ==
  [textContent |-> textContent, className |-> className]

\* the positions of the key in the cache object
Slots(obj, key) == {i \in 1..Len(obj) : obj[i].key = key}

\* obj[key] = width
Put(obj, key, width) ==
  IF Slots(obj, key) = {} THEN Append(obj, [key |-> key, width |-> width])
  ELSE [i \in 1..Len(obj) |-> IF obj[i].key = key THEN [obj[i] EXCEPT !.width = width]
                               ELSE obj[i]]

\* the measurement failed (the element is not in the visible document)
Throws == -1

\* getCachedWidth with the outcome of getComputedTextLength: a width or Throws
getCachedWidth(st, textElement, measured) ==
  LET key == <<textElement.textContent, textElement.className>>
      obj == st.cacheWidths_.entries
      hit == /\ ~st.cacheWidths_.isNull
             /\ Slots(obj, key) # {}
             /\ obj[CHOOSE i \in Slots(obj, key) : TRUE].width # 0
  IN IF hit
       THEN [st |-> st, width |-> obj[CHOOSE i \in Slots(obj, key) : TRUE].width]
     ELSE IF measured = Throws
       THEN [st |-> st, width |-> Len(textElement.textContent) * 8]
     ELSE [st |-> IF ~st.cacheWidths_.isNull
                    THEN [st EXCEPT !.cacheWidths_.entries = Put(obj, key, measured)]
                    ELSE st,
           width |-> measured]

startCache(st) ==
  LET st1 == [st EXCEPT !.cacheReference_ = @ + 1]
  IN IF st1.cacheWidths_.isNull THEN [st1 EXCEPT !.cacheWidths_ = EmptyWidths] ELSE st1

\* stopCache that releases the cache whatever the count
stopCache_alwaysReleases(st) ==
  [st EXCEPT !.cacheReference_ = @ - 1, !.cacheWidths_ = NullWidths]

stopCache(st) ==
  LET st1 == [st EXCEPT !.cacheReference_ = @ - 1]
  IN IF st1.cacheReference_ = 0 THEN [st1 EXCEPT !.cacheWidths_ = NullWidths] ELSE st1

----------------------------------------------------------------------------
(* Actions *)

Deltas == {-1, 0, 1}
Offsets == {<<0, 0>>, <<1, 0>>}

\* the operation's final state becomes the program's state
Commit(s) ==
  \E t \in {s} :
    /\ conn' = t.conn
    /\ db' = t.db
    /\ collapsed' = t.collapsed
    /\ thrown' = t.thrown
    /\ torn' = t.torn
    /\ disorder' = t.disorder
    /\ touched' = t.touched
    /\ ws' = t.ws
    /\ UNCHANGED <<field, cacheReference_, cacheWidths_>>

\* the record of an operation: its name, its receiver, its arguments, and
\* whether the receiver was in the index when it was called
Op(name, c, args) ==
  [op |-> name, c |-> c, args |-> args,
   was |-> IF c \in LiveConns THEN conn[c].inDB ELSE FALSE]

MoveTo(c, x, y) ==
  /\ Commit(moveTo(Start, c, x, y))
  /\ lastOp' = Op("moveTo", c, <<x, y>>)
  /\ result' = NONE
  /\ UNCHANGED live

MoveBy(c, dx, dy) ==
  /\ Commit(moveBy(Start, c, dx, dy))
  /\ lastOp' = Op("moveBy", c, <<dx, dy>>)
  /\ result' = NONE
  /\ UNCHANGED live

SetOffsetInBlock(c, off) ==
  /\ Commit(setOffsetInBlock(Start, c, off[1], off[2]))
  /\ lastOp' = Op("setOffsetInBlock", c, off)
  /\ result' = NONE
  /\ UNCHANGED live

MoveToOffset(c, blockTL) ==
  /\ Commit(moveToOffset(Start, c, blockTL))
  /\ lastOp' = Op("moveToOffset", c, <<>>)
  /\ result' = NONE
  /\ UNCHANGED live

SetHidden(c, hidden) ==
  /\ Commit(setHidden(Start, c, hidden))
  /\ lastOp' = Op("setHidden", c, <<hidden>>)
  /\ result' = NONE
  /\ UNCHANGED live

HideAll(c) ==
  /\ Commit(hideAll(Start, c))
  /\ lastOp' = Op("hideAll", c, <<>>)
  /\ result' = NONE
  /\ UNCHANGED live

UnhideAll(c) ==
  /\ LET r == unhideAll(Start, c)
     IN Commit(r.s) /\ result' = r.renderList
  /\ lastOp' = Op("unhideAll", c, <<>>)
  /\ UNCHANGED live

\* the pairs a caller may connect: a superior connection with an inferior one
\* of the opposite kind on another block that is not one of its ancestors
CanConnect(parentConnection, childConnection) ==
  /\ isSuperior(parentConnection)
  /\ type(childConnection) = OPPOSITE_TYPE(type(parentConnection))
  /\ sourceBlock(parentConnection) # sourceBlock(childConnection)
  /\ sourceBlock(parentConnection)
       \notin Range(getDescendants(Start, sourceBlock(childConnection)))

Connect(parentConnection, childConnection) ==
  /\ CanConnect(parentConnection, childConnection)
  /\ Commit(connect(Start, parentConnection, childConnection))
  /\ lastOp' = Op("connect", parentConnection, <<childConnection>>)
  /\ result' = NONE
  /\ UNCHANGED live

Disconnect(c) ==
  /\ conn[c].targetConnection # NONE
  /\ Commit(disconnectInternal(Start, c))
  /\ lastOp' = Op("disconnectInternal", c, <<conn[c].targetConnection>>)
  /\ result' = NONE
  /\ UNCHANGED live

SetCollapsed(b, flag) ==
  /\ Commit(setCollapsed(Start, b, flag))
  /\ lastOp' = Op("setCollapsed", b, <<flag>>)
  /\ result' = NONE
  /\ UNCHANGED live

Closest(c, maxLimit, dxy) ==
  /\ Commit(Start)
  /\ result' = closest(Start, c, maxLimit, dxy)
  /\ lastOp' = Op("closest", c, <<maxLimit, dxy>>)
  /\ UNCHANGED live

IsConnectionAllowed(c, candidate, maxRadius) ==
  /\ Commit(Start)
  /\ result' = isConnectionAllowed(Start, c, candidate, maxRadius)
  /\ lastOp' = Op("isConnectionAllowed", c, <<candidate, maxRadius>>)
  /\ UNCHANGED live

\* the drop after a search: the connection searched from and the one closest
\* found are connected, the superior one of the two as the parent
ConnectFound ==
  /\ lastOp.op = "closest"
  /\ result.connection # NONE
  /\ LET parentConnection == IF isSuperior(lastOp.c) THEN lastOp.c ELSE result.connection
         childConnection == IF isSuperior(lastOp.c) THEN result.connection ELSE lastOp.c
     IN /\ Commit(connect(Start, parentConnection, childConnection))
        /\ lastOp' = Op("connect", parentConnection, <<childConnection>>)
  /\ result' = NONE
  /\ UNCHANGED live

BumpAwayFrom(c, staticConnection) ==
  /\ Commit(bumpAwayFrom_(Start, c, staticConnection))
  /\ lastOp' = Op("bumpAwayFrom_", c, <<staticConnection>>)
  /\ result' = NONE
  /\ UNCHANGED live

\* the stack holding the connection is set down so that the connection comes
\* to lie at (x, y)
BlockMoveTo(c, x, y) ==
  /\ Commit(Block_moveBy(Start, getRootBlock(Start, sourceBlock(c)),
                         x - conn[c].x, y - conn[c].y))
  /\ lastOp' = Op("Block.moveBy", c, <<x, y>>)
  /\ result' = NONE
  /\ UNCHANGED live

\* a drag gesture starts or ends
SetDragMode(mode) ==
  /\ Commit([Start EXCEPT !.ws.dragMode = mode])
  /\ lastOp' = Op("dragMode", NONE, <<mode>>)
  /\ result' = NONE
  /\ UNCHANGED live

\* the renderer tightens the input and next connections of the block it lays
\* out onto the blocks attached to them
Tighten(c) ==
  /\ isSuperior(c)
  /\ conn[c].targetConnection # NONE
  /\ Commit(tighten_(Start, c))
  /\ lastOp' = Op("tighten_", c, <<>>)
  /\ result' = NONE
  /\ UNCHANGED live

\* the connection is empty; the block of its template, if it has one, does not
\* exist yet
RespawnShadow(c, respawned) ==
  /\ conn[c].targetConnection = NONE
  /\ ws.shadowDom[c] \notin live
  /\ \E t \in {respawnShadow(Start, c, respawned)} :
       /\ Commit(t)
       /\ live' = DOMAIN t.collapsed
  /\ lastOp' = Op("respawnShadow", c, <<respawned>>)
  /\ result' = NONE


----------------------------------------------------------------------------
(* Specifications *)

InitConnections(blocks) ==
  /\ live = blocks
  /\ conn = [c \in ConnectionsOf(blocks) |-> RenderedConnection]
  /\ db = [k \in Kinds |-> <<>>]
  /\ collapsed = [b \in blocks |-> FALSE]
  /\ thrown = NONE
  /\ torn = FALSE
  /\ disorder = FALSE
  /\ touched = {}
  /\ lastOp = [op |-> "new", c |-> NONE, args |-> <<>>, was |-> FALSE]
  /\ result = NONE
  /\ cacheReference_ = 0
  /\ cacheWidths_ = NullWidths

\* the blocks with a fresh text input that is on none of them
InitWith(blocks) ==
  /\ InitConnections(blocks)
  /\ ws = Workspace(blocks)
  /\ field = Field("FieldTextInput", <<>>)

Xs == 0..MaxCoord
Ys == {0, 1}
Line == {0, 1}

InRange(c, dx, dy, xs, ys) == conn[c].x + dx \in xs /\ conn[c].y + dy \in ys

\* The index and visibility protocol on a parent block b1 and a child block b2.
Init == InitWith({"b1", "b2"})

Next ==
  \/ \E c \in LiveConns, x \in Line : MoveTo(c, x, 0)
  \/ \E c \in LiveConns, dx \in Deltas :
       InRange(c, dx, 0, Line, {0}) /\ MoveBy(c, dx, 0)
  \/ \E c \in LiveConns, x \in Line : MoveToOffset(c, <<x, 0>>)
  \/ \E c \in LiveConns, h \in BOOLEAN : SetHidden(c, h)
  \/ \E c \in LiveConns : HideAll(c)
  \/ \E c \in LiveConns : UnhideAll(c)
  \/ \E p \in LiveConns, c \in LiveConns : Connect(p, c)
  \/ \E c \in LiveConns : Disconnect(c)
  \/ \E b \in live, f \in BOOLEAN : SetCollapsed(b, f)

Spec == Init /\ [][Next]_vars

\* Moves and layout of the two inputs of block b0.
InitMove == InitWith({"b0"})

NextMove ==
  \/ \E c \in LiveConns, x \in Xs, y \in Ys : MoveTo(c, x, y)
  \/ \E c \in LiveConns, dx \in Deltas, dy \in Deltas :
       InRange(c, dx, dy, Xs, Ys) /\ MoveBy(c, dx, dy)
  \/ \E c \in LiveConns, off \in Offsets : SetOffsetInBlock(c, off)
  \/ \E c \in LiveConns, x \in Xs, y \in Ys :
       InRange(c, x - conn[c].x + conn[c].offsetInBlock[1], y - conn[c].y, Xs, Ys)
       /\ MoveToOffset(c, <<x, y>>)
  \/ \E c \in LiveConns, h \in BOOLEAN : SetHidden(c, h)

SpecMove == InitMove /\ [][NextMove]_vars

\* Connecting, disconnecting and cascading visibility on three blocks.
InitTree == InitWith({"b1", "b2", "b3"})

NextTree ==
  \/ \E p \in LiveConns, c \in LiveConns : Connect(p, c)
  \/ \E c \in LiveConns : Disconnect(c)
  \/ \E c \in LiveConns : HideAll(c)
  \/ \E c \in LiveConns : UnhideAll(c)

SpecTree == InitTree /\ [][NextTree]_vars

\* Searching the inputs of b1, b2 and b3 from the outputs of b2, b3 and b4.
SearchXs == {0, 10, 100}
SearchYs == {0, 10}
SearchRadii == {5, 20}
SearchOffsets == {<<0, 0>>, <<5, 0>>}

InitSearch == InitWith({"b1", "b2", "b3", "b4"})

NextSearch ==
  \/ \E x \in SearchXs, y \in SearchYs : MoveTo("in1", x, y)
  \/ \E c \in {"in2", "in3"}, x \in SearchXs : MoveTo(c, x, 0)
  \/ MoveTo("out4", 5, 0)
  \/ Connect("in2", "out3")
  \/ Disconnect("in2")
  \/ \E c \in {"out2", "out3", "out4"}, r \in SearchRadii, dxy \in SearchOffsets :
       Closest(c, r, dxy)

SpecSearch == InitSearch /\ [][NextSearch]_vars

\* Dragging and dropping the value blocks b2, b3 and b4 onto each other.
SnapXs == {0, 5, 10}
SnapRadii == {5, 10}

InitSnap == InitWith({"b2", "b3", "b4"})

NextSnap ==
  \/ MoveTo("in2", 0, 0)
  \/ \E c \in {"in3", "out2"}, x \in SnapXs : MoveTo(c, x, 0)
  \/ \E c \in LiveConns, r \in SnapRadii : Closest(c, r, <<0, 0>>)
  \/ ConnectFound
  \/ \E c \in LiveConns : Disconnect(c)
  \/ \E c \in LiveConns, candidate \in LiveConns, r \in SnapRadii :
       c # candidate /\ IsConnectionAllowed(c, candidate, r)

SpecSnap == InitSnap /\ [][NextSnap]_vars

\* Bumping the stack b1 > b2 and the block b4 away from each other.
BumpPlaces == {<<0, 0>>, <<10, -40>>, <<-20, 20>>}

\* the connection is where its stack was last set down
AtPlace(c) == <<conn[c].x, conn[c].y>> \in BumpPlaces

InitBump ==
  /\ InitConnections({"b1", "b2", "b4"})
  /\ field = Field("FieldTextInput", <<>>)
  /\ \E rtl \in BOOLEAN, movable \in [{"b1", "b4"} -> BOOLEAN],
        flyout \in [{"b1", "b4"} -> BOOLEAN], selected \in {NONE, "b4"} :
       ws = [Workspace({"b1", "b2", "b4"}) EXCEPT
               !.RTL = rtl,
               !.movable = movable @@ @,
               !.isInFlyout = flyout @@ @,
               !.selected = selected,
               !.selectClass = {selected} \ {NONE}]

NextBump ==
  \/ BlockMoveTo("in2", 0, 0)
  \/ \E p \in BumpPlaces : BlockMoveTo("out4", p[1], p[2])
  \/ Connect("in1", "out2")
  \/ \E mode \in {DRAG_NONE, DRAG_FREE} : SetDragMode(mode)
  \/ \E c \in {"in2", "out4"}, staticConnection \in {"in2", "out4"} :
       /\ c # staticConnection
       /\ AtPlace(c) /\ AtPlace(staticConnection)
       /\ BumpAwayFrom(c, staticConnection)

SpecBump == InitBump /\ [][NextBump]_vars

\* Hiding and showing the stack b5 > b7 > b6 with b4 in the input of b7.
InitChain == InitWith({"b4", "b5", "b6", "b7"})

NextChain ==
  \/ \E pair \in {<<"nx5", "pv7">>, <<"nx7", "pv6">>, <<"in7", "out4">>} :
       Connect(pair[1], pair[2])
  \/ \E f \in BOOLEAN : SetCollapsed("b7", f)
  \/ \E c \in {"nx5", "in7", "pv7"} : HideAll(c)
  \/ \E c \in {"nx5", "nx7", "pv7", "out4"} : UnhideAll(c)

SpecChain == InitChain /\ [][NextChain]_vars

\* Connecting, tightening and respawning on the blocks b1, b2 and the stack
\* b5 > b6, some of them rendered; the input of b2 may have the template of b4.
RenderedSets == {{}, {"b1", "b5"}, {"b2", "b6"}, {"b1", "b2", "b5", "b6"}}

InitRender ==
  /\ InitConnections({"b1", "b2", "b5", "b6"})
  /\ field = Field("FieldTextInput", <<>>)
  /\ \E rendered \in RenderedSets, inWorkspace \in BOOLEAN,
        shadow \in {NONE, "b4"}, recordUndo \in BOOLEAN :
       ws = [Workspace({"b1", "b2", "b5", "b6"}) EXCEPT
               !.rendered = [b \in {"b1", "b2", "b5", "b6"} |-> b \in rendered],
               !.workspace["b2"] = inWorkspace,
               !.shadowDom["in2"] = shadow,
               !.recordUndo = recordUndo]

NextRender ==
  \/ \E pair \in {<<"in1", "out2">>, <<"nx5", "pv6">>} : Connect(pair[1], pair[2])
  \/ \E c \in {"in1", "in2"} : Disconnect(c)
  \/ \E x \in Line, y \in Line : MoveTo("in1", x, y)
  \/ \E c \in {"in1", "nx5", "in2"} : Tighten(c)
  \/ \E respawned \in BOOLEAN : RespawnShadow("in2", respawned)

SpecRender == InitRender /\ [][NextRender]_vars

----------------------------------------------------------------------------
(* Fields: actions and specifications *)

\* the final field of an operation becomes the program's field; the
\* connections are left alone
CommitField(f) ==
  /\ field' = f
  /\ UNCHANGED <<live, conn, db, collapsed, thrown, torn, disorder, touched, ws>>
  /\ UNCHANGED <<cacheReference_, cacheWidths_>>

Event(eventType, keyCode, ctrlKey) ==
  [type |-> eventType, keyCode |-> keyCode, ctrlKey |-> ctrlKey]

SetValue(newValue) ==
  /\ CommitField(setValue(StartField, newValue))
  /\ lastOp' = Op("setValue", NONE, <<newValue>>)
  /\ result' = NONE

SetText(newText) ==
  /\ CommitField(setText(StartField, newText))
  /\ lastOp' = Op("setText", NONE, <<newText>>)
  /\ result' = NONE

CallValidator(text) ==
  /\ CommitField(StartField)
  /\ lastOp' = Op("callValidator", NONE, <<text>>)
  /\ result' = callValidator(StartField, text)

\* a click on the text field of a block while no editor is open
ShowEditor ==
  /\ field.class = "FieldTextInput"
  /\ field.sourceBlock # NONE
  /\ ~field.editing
  /\ CommitField(showEditor(StartField))
  /\ lastOp' = Op("showEditor", NONE, <<>>)
  /\ result' = NONE

\* a key that writes a character: the keypress handler runs; unless it
\* prevented the default or Control is held, the browser puts the character
\* at the end of the input and the input handler runs
KeyPress(char, ctrlKey) ==
  /\ field.editing
  /\ Len(field.htmlInput.value) < MaxLen
  /\ LET f1 == onHtmlInputChange_(StartField, Event("keypress", char, ctrlKey))
         typed == [f1 EXCEPT !.htmlInput.value = Append(@, char)]
     IN CommitField(IF Restricted(StartField, Event("keypress", char, ctrlKey)) \/ ctrlKey
                      THEN f1
                      ELSE onHtmlInputChange_(typed, Event("input", char, FALSE)))
  /\ lastOp' = Op("keypress", NONE, <<char, ctrlKey>>)
  /\ result' = NONE

\* a key is released
KeyUp ==
  /\ field.editing
  /\ CommitField(onHtmlInputChange_(StartField, Event("keyup", "", FALSE)))
  /\ lastOp' = Op("keyup", NONE, <<>>)
  /\ result' = NONE

\* the content of the input is replaced without a keypress (a paste, a cut, a
\* drop, an input method) and the input handler runs
Input(text) ==
  /\ field.editing
  /\ CommitField(onHtmlInputChange_([StartField EXCEPT !.htmlInput.value = text],
                                    Event("input", "", FALSE)))
  /\ lastOp' = Op("input", NONE, <<text>>)
  /\ result' = NONE

\* Enter, Escape or Tab goes down in the editor
KeyDown(keyCode) ==
  /\ field.editing
  /\ CommitField(onHtmlInputKeyDown_(StartField, Event("keydown", keyCode, FALSE)))
  /\ lastOp' = Op("keydown", NONE, <<keyCode>>)
  /\ result' = NONE

\* the widget is told to hide because the pointer went down elsewhere
Blur ==
  /\ CommitField(WidgetDiv_hide(StartField))
  /\ lastOp' = Op("blur", NONE, <<>>)
  /\ result' = NONE

\* the texts of the scenarios
T21 == <<"2", "1">>
T42 == <<"4", "2">>
Tabc == <<"a", "b", "c">>
TO2 == <<"O", "2">>

T2 == <<"2">>

\* the keys pressed, as (character, Control held): two characters and the
\* shortcut for paste
Keys == {<<"1", FALSE>>, <<"a", FALSE>>, <<"v", TRUE>>}
InputTexts == {<<>>, Tabc}
Values == {null, T21, T42, Tabc, TO2}
EditorValues == {null, T21, Tabc}

\* the options of the dropdown, as (text, value); two of them share a value
Options ==
  << <<<<"A">>, <<"k">>>>, <<<<"B">>, <<"k">>>>, <<<<"C">>, <<"m">>>> >>
OptionValues == {null, <<"k">>, <<"m">>, <<"z">>}

\* a field on no block, on a block, or on a rendered block
Placed(f, place) ==
  [f EXCEPT !.sourceBlock = IF place = "none" THEN NONE ELSE "b1",
            !.rendered = (place = "rendered")]
Places == {"none", "headless", "rendered"}

TextInputs(text, classValidators, userValidators, restrictors, places, agents) ==
  {[Placed(Field("FieldTextInput", text), place) EXCEPT
      !.classValidator = cv, !.validator_ = uv, !.restrictor_ = r,
      !.enabled = en, !.userAgent = ua] :
     cv \in classValidators, uv \in userValidators, r \in restrictors,
     place \in places, en \in BOOLEAN, ua \in agents}

Dropdowns ==
  {[Placed(Field("FieldDropdown", <<"C">>), place) EXCEPT
      !.value = <<"m">>, !.menuGenerator_ = Options, !.enabled = en] :
     place \in Places, en \in BOOLEAN}

PlainFields ==
  {[Placed(Field("Field", T21), place) EXCEPT
      !.classValidator = cv, !.validator_ = uv, !.enabled = en] :
     cv \in ClassValidators, uv \in UserValidators, place \in Places, en \in BOOLEAN}

InitFieldOf(fields) ==
  /\ InitConnections({"b1"})
  /\ ws = Workspace({"b1"})
  /\ field \in fields

\* Values set from code on fields of the three classes.
InitField ==
  InitFieldOf(PlainFields \cup Dropdowns
              \cup TextInputs(T21, ClassValidators, UserValidators, {NONE}, Places,
                             {"WEBKIT"}))

NextField ==
  \/ \E v \in Values : field.class # "FieldDropdown" /\ SetValue(v)
  \/ \E v \in OptionValues : field.class = "FieldDropdown" /\ SetValue(v)
  \/ \E v \in Values : field.class # "FieldDropdown" /\ SetText(v)
  \/ \E t \in Values \ {null} : CallValidator(t)

SpecField == InitField /\ [][NextField]_vars

\* A text input, edited in its editor when it is on a block, and a dropdown,
\* both set from code while no editor is open.
InitEditor ==
  InitFieldOf(TextInputs(T2, {"Field", "number"}, {NONE, "double"}, Restrictors,
                         Places, {"GECKO", "WEBKIT"})
              \cup Dropdowns)

NextEditor ==
  \/ ShowEditor
  \/ \E key \in Keys : KeyPress(key[1], key[2])
  \/ KeyUp
  \/ \E text \in InputTexts : Input(text)
  \/ \E keyCode \in {enterKey, escKey, tabKey} : KeyDown(keyCode)
  \/ Blur
  \/ \E v \in EditorValues : ~field.editing /\ SetValue(v)
  \/ \E v \in EditorValues : ~field.editing /\ SetText(v)

SpecEditor == InitEditor /\ [][NextEditor]_vars

\* Measuring texts inside nested startCache/stopCache scopes.
CommitStatics(st) ==
  /\ cacheReference_' = st.cacheReference_
  /\ cacheWidths_' = st.cacheWidths_
  /\ UNCHANGED <<live, conn, db, collapsed, thrown, torn, disorder, touched, ws,
                 field>>

StartCache ==
  /\ cacheReference_ < MaxDepth
  /\ CommitStatics(startCache(Statics))
  /\ lastOp' = Op("startCache", NONE, <<>>)
  /\ result' = NONE

\* every stopCache matches an earlier startCache
StopCache ==
  /\ cacheReference_ > 0
  /\ CommitStatics(stopCache(Statics))
  /\ lastOp' = Op("stopCache", NONE, <<>>)
  /\ result' = NONE

GetCachedWidth(textElement, measured) ==
  /\ CommitStatics(getCachedWidth(Statics, textElement, measured).st)
  /\ lastOp' = Op("getCachedWidth", NONE, <<textElement, measured>>)
  /\ result' = getCachedWidth(Statics, textElement, measured).width

TextElements ==
  {TextElement(text, class) : text \in {<<>>, T2}, class \in {"blocklyText", "blocklyEditableText"}}

\* the widths a measurement gives
Widths == {0, 16}

NextCache ==
  \/ StartCache
  \/ StopCache
  \/ \E e \in TextElements, w \in Widths \cup {Throws} : GetCachedWidth(e, w)

SpecCache == InitFieldOf({Field("Field", T2)}) /\ [][NextCache]_vars

----------------------------------------------------------------------------
(* Properties *)

\* the connections that are in their kind's index
Members(s) == {c \in DOMAIN s.conn : c \in Range(s.db[type(c)])}

Occurrences(seq, e) == Cardinality({i \in 1..Len(seq) : seq[i] = e})

\* C1: in every reachable state no hidden connection is in the spatial index.
C1_HiddenNeverIndexed ==
  \A c \in LiveConns : conn[c].hidden => ~conn[c].inDB /\ c \notin Members(State)

\* hideAll took its receiver out of the index and hid a connection below it
C1_Witness ==
  /\ lastOp.op = "hideAll" /\ lastOp.was
  /\ conn[lastOp.c].hidden
  /\ \E d \in LiveConns \ {lastOp.c} : conn[d].hidden /\ sourceBlock(d) # sourceBlock(lastOp.c)

\* C2 as stated: in every reachable state, the freshly constructed one
\* included, a connection is in the index exactly when it is not hidden.
C2_Original ==
  \A c \in LiveConns : c \in Members(State) <=> ~conn[c].hidden

\* C2 amended: once moveTo or setHidden has been called on a connection it is
\* in the index exactly when it is not hidden; until then it is not hidden and
\* not in the index.
C2_IndexedIffShown ==
  \A c \in LiveConns :
    IF c \in touched
    THEN /\ c \in Members(State) <=> ~conn[c].hidden
         /\ conn[c].inDB <=> c \in Members(State)
    ELSE ~conn[c].hidden /\ ~conn[c].inDB /\ c \notin Members(State)

\* one connection shown and indexed, one hidden, one never touched
C2_Witness ==
  \E c \in LiveConns, d \in LiveConns, e \in LiveConns :
    /\ c \in touched /\ ~conn[c].hidden /\ c \in Members(State)
    /\ d \in touched /\ conn[d].hidden
    /\ e \notin touched

\* C3 as stated: from any state, setHidden(true) then setHidden(false) on a
\* connection leaves the membership of the index as it was before the two calls.
C3_Original ==
  [][(lastOp'.op = "setHidden" /\ lastOp'.args[1] = TRUE)
       => Members(setHidden(Start', lastOp'.c, FALSE)) = Members(State)]_vars

\* C3 amended: for a connection that is in the index, setHidden(true) then
\* setHidden(false) leaves the membership of the index as it was and the
\* connection not hidden.
C3_HideShowRestores ==
  [][(lastOp'.op = "setHidden" /\ lastOp'.args[1] = TRUE /\ lastOp'.was)
       => LET back == setHidden(Start', lastOp'.c, FALSE)
          IN /\ Members(back) = Members(State)
             /\ ~back.conn[lastOp'.c].hidden
             /\ back.thrown = NONE]_vars

\* setHidden(true) has just taken a connection out of an index that holds another
C3_Witness ==
  /\ lastOp.op = "setHidden" /\ lastOp.args[1] = TRUE /\ lastOp.was
  /\ lastOp.c \notin Members(State)
  /\ Members(State) # {}

\* C4: after connect the two connections are each other's target, after
\* disconnectInternal both have none, and in every reachable state a
\* connection with a target is the target of that target.
C4_SymmetricLinks ==
  /\ \A c \in LiveConns :
       conn[c].targetConnection # NONE
         => conn[conn[c].targetConnection].targetConnection = c
  /\ lastOp.op = "connect"
       => /\ conn[lastOp.c].targetConnection = lastOp.args[1]
          /\ conn[lastOp.args[1]].targetConnection = lastOp.c
  /\ lastOp.op = "disconnectInternal"
       => /\ conn[lastOp.c].targetConnection = NONE
          /\ conn[lastOp.args[1]].targetConnection = NONE

\* connect has just linked a pair while another pair is linked
C4_Witness ==
  /\ lastOp.op = "connect"
  /\ conn[lastOp.c].targetConnection = lastOp.args[1]
  /\ \E d \in LiveConns \ {lastOp.c, lastOp.args[1]} : conn[d].targetConnection # NONE

\* C5: after moveTo(x, y) the connection is at (x, y); not hidden, it is in
\* the index once, at the place of (x, y) in the order; hidden, it is not in
\* the index.
C5_MoveToPlaces ==
  lastOp.op = "moveTo" =>
    LET c == lastOp.c
    IN /\ conn[c].x = lastOp.args[1] /\ conn[c].y = lastOp.args[2]
       /\ ~conn[c].hidden
            => /\ conn[c].inDB
               /\ Occurrences(db[type(c)], c) = 1
               /\ Sorted(State, type(c))
       /\ conn[c].hidden
            => ~conn[c].inDB /\ Occurrences(db[type(c)], c) = 0
       /\ thrown = NONE

\* moveTo has just moved an indexed connection within an index of two
C5_Witness ==
  /\ lastOp.op = "moveTo" /\ lastOp.was
  /\ ~conn[lastOp.c].hidden
  /\ Len(db[type(lastOp.c)]) = 2
  /\ \E d \in LiveConns \ {lastOp.c} : conn[d].x # conn[lastOp.c].x

\* C6: a second moveTo(x, y) right after moveTo(x, y) changes neither the
\* connections (position, hidden flag, index flag) nor the index.
C6_MoveToIdempotent ==
  lastOp.op = "moveTo" =>
    LET again == moveTo(Start, lastOp.c, lastOp.args[1], lastOp.args[2])
    IN again.conn = conn /\ again.db = db /\ again.thrown = NONE

\* moveTo has just registered a connection at the coordinates of another
C6_Witness ==
  /\ lastOp.op = "moveTo" /\ ~lastOp.was
  /\ conn[lastOp.c].inDB
  /\ \E d \in Members(State) \ {lastOp.c} :
       conn[d].x = conn[lastOp.c].x /\ conn[d].y = conn[lastOp.c].y

\* no other connection of the index has the coordinates of c
AloneAtItsPlace(c) ==
  \A d \in Members(State) \ {c} :
    type(d) = type(c) => conn[d].x # conn[c].x \/ conn[d].y # conn[c].y

C8_NoMoveInPlace ==
  /\ ~torn
  /\ ~disorder
  /\ \A kind \in Kinds : Sorted(State, kind)

\* moveToOffset has just moved an indexed connection with an offset
C8_Witness ==
  /\ lastOp.op = "moveToOffset" /\ lastOp.was
  /\ conn[lastOp.c].offsetInBlock # <<0, 0>>
  /\ Len(db[type(lastOp.c)]) = 2

\* the connections the search may return for c taken to be at its position
\* plus dxy: those of the opposite index within maxRadius that the base class allows
LegalWithin(c, maxRadius, dxy) ==
  {d \in Range(db[OPPOSITE_TYPE(type(c))]) :
     /\ (conn[c].x + dxy[1] - conn[d].x) * (conn[c].x + dxy[1] - conn[d].x)
        + (conn[c].y + dxy[2] - conn[d].y) * (conn[c].y + dxy[2] - conn[d].y)
          <= maxRadius * maxRadius
     /\ Connection_isConnectionAllowed(State, c, d)}

SquaredDistance(c, dxy, d) ==
  (conn[c].x + dxy[1] - conn[d].x) * (conn[c].x + dxy[1] - conn[d].x)
  + (conn[c].y + dxy[2] - conn[d].y) * (conn[c].y + dxy[2] - conn[d].y)

\* the place of index entry d in the scan from c's place: the entries behind
\* that place going up, then the entries before it going down
ScanRank(c, dxy, d) ==
  LET index == db[OPPOSITE_TYPE(type(c))]
      before == Cardinality({i \in 1..Len(index) :
                  \/ conn[index[i]].x < conn[c].x + dxy[1]
                  \/ /\ conn[index[i]].x = conn[c].x + dxy[1]
                     /\ conn[index[i]].y <= conn[c].y + dxy[2]})
      i == CHOOSE k \in 1..Len(index) : index[k] = d
  IN IF i > before THEN i - before ELSE Len(index) - i + 1

\* C9: closest returns no candidate farther than maxRadius; when a legal
\* candidate is within range it returns one of least distance, the first of
\* the scan among those equally close; with none in range it returns none.
C9_ClosestIsNearest ==
  lastOp.op = "closest" =>
    LET c == lastOp.c
        maxRadius == lastOp.args[1]
        dxy == lastOp.args[2]
        legal == LegalWithin(c, maxRadius, dxy)
        best == result.connection
    IN /\ best = NONE <=> legal = {}
       /\ best # NONE =>
            /\ best \in legal
            /\ SquaredDistance(c, dxy, best) <= maxRadius * maxRadius
            /\ result.radius = SquaredDistance(c, dxy, best)
            /\ \A d \in legal :
                 /\ SquaredDistance(c, dxy, best) <= SquaredDistance(c, dxy, d)
                 /\ SquaredDistance(c, dxy, d) = SquaredDistance(c, dxy, best)
                      => ScanRank(c, dxy, best) <= ScanRank(c, dxy, d)

\* closest has just chosen between two legal candidates equally close, with
\* an indexed connection in range that is not legal
C9_Witness ==
  /\ lastOp.op = "closest"
  /\ result.connection # NONE
  /\ LET c == lastOp.c
         maxRadius == lastOp.args[1]
         dxy == lastOp.args[2]
         legal == LegalWithin(c, maxRadius, dxy)
         index == Range(db[OPPOSITE_TYPE(type(c))])
     IN /\ \E d \in legal \ {result.connection} :
             SquaredDistance(c, dxy, d) = SquaredDistance(c, dxy, result.connection)
        /\ \E d \in index \ legal : SquaredDistance(c, dxy, d) <= maxRadius * maxRadius

\* the scenario: the three inputs are indexed at x = 0, 10 and 100 on the y of
\* the probe, the probe is at x = 5 and may connect to each of them
ThreeInputsScenario(probe) ==
  /\ type(probe) = OUTPUT_VALUE
  /\ conn[probe].x = 5
  /\ Range(db[INPUT_VALUE]) = {"in1", "in2", "in3"}
  /\ {conn[d].x : d \in {"in1", "in2", "in3"}} = {0, 10, 100}
  /\ \A d \in {"in1", "in2", "in3"} :
       /\ conn[d].y = conn[probe].y
       /\ Connection_isConnectionAllowed(State, probe, d)

\* C10: with three inputs at x = 0, 10 and 100 and the probe at x = 5,
\* closest with maxRadius 20 returns the input at x = 10.
C10_ScenarioPicksTen ==
  (/\ lastOp.op = "closest"
   /\ lastOp.args = <<20, <<0, 0>>>>
   /\ ThreeInputsScenario(lastOp.c))
    => /\ result.connection # NONE
       /\ conn[result.connection].x = 10

\* closest has just run in the scenario
C10_Witness ==
  /\ lastOp.op = "closest"
  /\ lastOp.args = <<20, <<0, 0>>>>
  /\ ThreeInputsScenario(lastOp.c)
  /\ result.connection # NONE

\* C11: isConnectionAllowed returns false whenever the candidate is farther
\* than maxRadius, whatever the kinds; within maxRadius (the radius itself
\* included) its result is that of the compatibility predicate.
C11_RadiusFirst ==
  lastOp.op = "isConnectionAllowed" =>
    LET c == lastOp.c
        candidate == lastOp.args[1]
        maxRadius == lastOp.args[2]
    IN IF SquaredDistance(c, <<0, 0>>, candidate) > maxRadius * maxRadius
       THEN result = FALSE
       ELSE result = Connection_isConnectionAllowed(State, c, candidate)

\* isConnectionAllowed has just turned down a compatible candidate that is too
\* far, while another compatible one lies exactly maxRadius away
C11_Witness ==
  /\ lastOp.op = "isConnectionAllowed"
  /\ result = FALSE
  /\ LET c == lastOp.c
         candidate == lastOp.args[1]
         maxRadius == lastOp.args[2]
     IN /\ SquaredDistance(c, <<0, 0>>, candidate) > maxRadius * maxRadius
        /\ Connection_isConnectionAllowed(State, c, candidate)
        /\ \E d \in LiveConns :
             /\ SquaredDistance(c, <<0, 0>>, d) = maxRadius * maxRadius
             /\ Connection_isConnectionAllowed(State, c, d)

\* the blocks attached to the superior connections of b
ChildBlocks(s, b) ==
  {targetBlock(s, c) :
     c \in {d \in Range(BlockConnections(b)) :
              isSuperior(d) /\ s.conn[d].targetConnection # NONE}}

RECURSIVE ReachedIn(_, _, _)
\* the blocks of the set and those at most n links below them
ReachedIn(s, blocks, n) ==
  IF n = 0 THEN blocks
  ELSE ReachedIn(s, blocks \cup UNION {ChildBlocks(s, b) : b \in blocks}, n - 1)

\* the blocks strictly below b
Below(s, b) == ReachedIn(s, ChildBlocks(s, b), Cardinality(DOMAIN s.collapsed))

Acyclic(s) == \A b \in DOMAIN s.collapsed : b \notin Below(s, b)

\* C12: A allows B exactly when B allows A for the same radius, a pair with
\* one block an ancestor of the other is never allowed, and connecting what
\* closest found never makes a block its own descendant.
C12_SymmetricNoCycle ==
  /\ Acyclic(State)
  /\ lastOp.op = "isConnectionAllowed" =>
       LET c == lastOp.c
           candidate == lastOp.args[1]
           maxRadius == lastOp.args[2]
       IN /\ result = isConnectionAllowed(State, candidate, c, maxRadius)
          /\ (\/ sourceBlock(c) \in Below(State, sourceBlock(candidate))
              \/ sourceBlock(candidate) \in Below(State, sourceBlock(c)))
               => result = FALSE

\* a found candidate has just been connected, and an input of the lower block
\* now lies in the index at the place of the upper block's output
C12_Witness ==
  /\ lastOp.op = "connect"
  /\ \E top \in live, bottom \in live :
       /\ bottom \in Below(State, top)
       /\ \E a \in Range(BlockConnections(bottom)), b \in Range(BlockConnections(top)) :
            /\ type(a) = OPPOSITE_TYPE(type(b))
            /\ isSuperior(a)
            /\ conn[a].inDB
            /\ SquaredDistance(a, <<0, 0>>, b) = 0

\* the step moved no block and no connection and left the selection alone
NothingMoved ==
  /\ conn' = conn
  /\ db' = db
  /\ ws'.xy = ws.xy
  /\ ws'.selected = ws.selected
  /\ ws'.selectClass = ws.selectClass
  /\ ws'.moved = NotMoved

\* the root blocks of the two sides of the bump that the step performs
BumpThisRoot == getRootBlock(State, sourceBlock(lastOp'.c))
BumpStaticRoot == getRootBlock(State, sourceBlock(lastOp'.args[1]))

\* C13: while a drag gesture is in progress bumpAwayFrom_ moves no block and
\* changes no connection position, index or selection.
C13_NoBumpWhileDragging ==
  [][(lastOp'.op = "bumpAwayFrom_" /\ ws.dragMode # DRAG_NONE)
       => NothingMoved]_vars

\* bumpAwayFrom_ has just been called during a drag on two overlapping
\* connections whose stacks are movable and outside any flyout
C13_Witness ==
  /\ lastOp.op = "bumpAwayFrom_"
  /\ ws.dragMode # DRAG_NONE
  /\ ws.moved = NotMoved
  /\ conn[lastOp.c].x = conn[lastOp.args[1]].x
  /\ conn[lastOp.c].y = conn[lastOp.args[1]].y
  /\ \A b \in {getRootBlock(State, sourceBlock(lastOp.c)),
               getRootBlock(State, sourceBlock(lastOp.args[1]))} :
       ws.movable[b] /\ ~ws.isInFlyout[b]

\* C14 as stated: bumpAwayFrom_ moves no block when the root block of either
\* side is in a flyout.
C14_Original ==
  [][(/\ lastOp'.op = "bumpAwayFrom_"
      /\ ws.isInFlyout[BumpThisRoot] \/ ws.isInFlyout[BumpStaticRoot])
       => NothingMoved]_vars

OppositeSigns(a, b) == (a < 0 /\ b > 0) \/ (a > 0 /\ b < 0)

\* the step is a bump of A away from B with no drag in progress, A's root
\* outside any flyout and immovable, B's root movable
ReversedBump ==
  /\ lastOp'.op = "bumpAwayFrom_"
  /\ ws.dragMode = DRAG_NONE
  /\ ~ws.isInFlyout[BumpThisRoot]
  /\ ~ws.movable[BumpThisRoot]
  /\ ws.movable[BumpStaticRoot]

C16_BumpDisplacement ==
  [][(/\ lastOp'.op = "bumpAwayFrom_"
      /\ ws.dragMode = DRAG_NONE
      /\ ~ws.isInFlyout[BumpThisRoot]
      /\ ws.movable[BumpThisRoot])
       => LET this == lastOp'.c
              static == lastOp'.args[1]
              dx == (conn[static].x + SNAP_RADIUS) - conn[this].x
              dy == (conn[static].y + SNAP_RADIUS) - conn[this].y
          IN /\ ws'.moved = [block |-> BumpThisRoot,
                             dx |-> IF ws.RTL THEN -dx ELSE dx,
                             dy |-> dy]
             /\ conn'[this].x = conn[this].x + ws'.moved.dx
             /\ conn'[this].y = conn[this].y + dy
             /\ (~ws.RTL /\ BumpStaticRoot # BumpThisRoot)
                  => /\ conn'[static] = conn[static]
                     /\ conn'[this].x = conn'[static].x + SNAP_RADIUS
                     /\ conn'[this].y = conn'[static].y + SNAP_RADIUS]_vars

\* a bump has just moved the root above this connection's block, left to
\* right, away from a connection that lay elsewhere
C16_Witness ==
  /\ lastOp.op = "bumpAwayFrom_"
  /\ ~ws.RTL
  /\ ws.moved.block # NONE
  /\ ws.moved.block = getRootBlock(State, sourceBlock(lastOp.c))
  /\ ws.moved.block # sourceBlock(lastOp.c)
  /\ ws.moved.dx # ws.moved.dy
  /\ conn[lastOp.c].x = conn[lastOp.args[1]].x + SNAP_RADIUS
  /\ conn[lastOp.c].y = conn[lastOp.args[1]].y + SNAP_RADIUS

\* the connections of a set of blocks
ConnectionsOn(blocks) == UNION {Range(BlockConnections(b)) : b \in blocks}

\* the attached block of c and the blocks below it, none when c has no target
AttachedSubtree(s, c) ==
  IF s.conn[c].targetConnection = NONE THEN {}
  ELSE {targetBlock(s, c)} \cup Below(s, targetBlock(s, c))

\* C17: after hideAll the connection is hidden and out of the index; if it
\* has a target, so is every connection of the attached block and of every
\* block below it; every other connection is as it was.
C17_HideAllHidesSubtree ==
  [][lastOp'.op = "hideAll"
       => LET c == lastOp'.c
              gone == {c} \cup ConnectionsOn(AttachedSubtree(State, c))
          IN /\ \A d \in gone :
                  /\ conn'[d] = [conn[d] EXCEPT !.hidden = TRUE, !.inDB = FALSE]
                  /\ d \notin Members(State')
             /\ \A d \in LiveConns \ gone :
                  /\ conn'[d] = conn[d]
                  /\ d \in Members(State') <=> d \in Members(State)
             /\ thrown' = NONE]_vars

\* hideAll has just hidden a connection that was in the index and the two
\* levels of blocks below it, while a connection of another block stays in
\* the index
C17_Witness ==
  /\ lastOp.op = "hideAll" /\ lastOp.was
  /\ \E b \in AttachedSubtree(State, lastOp.c) :
       b # targetBlock(State, lastOp.c)
  /\ \A d \in {lastOp.c} \cup ConnectionsOn(AttachedSubtree(State, lastOp.c)) :
       conn[d].hidden
  /\ \E d \in Members(State) : ~conn[d].hidden

\* the blocks unhideAll goes on to from block b: the one on its next
\* connection when b is collapsed, else those on all its superior connections
Visits(s, b) ==
  {targetBlock(s, c) :
     c \in {d \in Range(BlockConnections(b)) :
              /\ isSuperior(d)
              /\ s.conn[d].targetConnection # NONE
              /\ s.collapsed[b] => type(d) = NEXT_STATEMENT}}

RECURSIVE VisitedIn(_, _, _)
VisitedIn(s, blocks, n) ==
  IF n = 0 THEN blocks
  ELSE VisitedIn(s, blocks \cup UNION {Visits(s, b) : b \in blocks}, n - 1)

\* the blocks unhideAll on c reaches
Visited(s, c) ==
  IF ~isSuperior(c) \/ s.conn[c].targetConnection = NONE THEN {}
  ELSE VisitedIn(s, {targetBlock(s, c)}, Cardinality(DOMAIN s.collapsed))

\* C18: of a collapsed block that unhideAll reaches, the output, next and
\* previous connections are unhidden and the inputs, with everything attached
\* to them, are left as they were: hidden inputs stay hidden.
C18_CollapsedShowsStructureOnly ==
  [][lastOp'.op = "unhideAll"
       => \A b \in Visited(State, lastOp'.c) :
            collapsed[b]
              => /\ \A d \in {outputConnection(b), nextConnection(b),
                              previousConnection(b)} \ {NONE} :
                      ~conn'[d].hidden /\ conn'[d].inDB
                 /\ \A d \in Range(Inputs(b)) :
                      /\ conn'[d] = conn[d]
                      /\ \A e \in ConnectionsOn(AttachedSubtree(State, d)) :
                           conn'[e] = conn[e]]_vars

\* unhideAll has just run on the top of a three-level stack whose middle
\* block is collapsed: the middle block's previous and next connections and
\* the block below are shown, its input and the block in it are still hidden
C18_Witness ==
  /\ lastOp.op = "unhideAll"
  /\ \E b \in Visited(State, lastOp.c) :
       /\ collapsed[b]
       /\ Visits(State, b) # {}
       /\ ~conn[previousConnection(b)].hidden
       /\ ~conn[nextConnection(b)].hidden
       /\ \A e \in ConnectionsOn(Visits(State, b)) : ~conn[e].hidden
       /\ \E d \in Range(Inputs(b)) :
            /\ conn[d].hidden
            /\ conn[d].targetConnection # NONE
            /\ conn[conn[d].targetConnection].hidden

\* C19: unhideAll on an output or previous-statement connection unhides that
\* connection, leaves every other connection as it was and returns an empty
\* list; only input-value and next-statement connections lead on to the
\* attached block.
C19_InferiorUnhidesItselfOnly ==
  [][(lastOp'.op = "unhideAll" /\ type(lastOp'.c) \in {OUTPUT_VALUE, PREVIOUS_STATEMENT})
       => /\ ~conn'[lastOp'.c].hidden
          /\ conn'[lastOp'.c].inDB
          /\ \A d \in LiveConns \ {lastOp'.c} : conn'[d] = conn[d]
          /\ result' = <<>>]_vars

\* unhideAll has just shown a previous-statement connection whose parent's
\* connection, and another connection of its own block, are still hidden
C19_Witness ==
  /\ lastOp.op = "unhideAll"
  /\ type(lastOp.c) = PREVIOUS_STATEMENT
  /\ ~conn[lastOp.c].hidden
  /\ conn[lastOp.c].targetConnection # NONE
  /\ conn[conn[lastOp.c].targetConnection].hidden
  /\ \E d \in Range(BlockConnections(sourceBlock(lastOp.c))) : conn[d].hidden

\* C20: unhideAll returns the leaves of the blocks it reached, each once: the
\* blocks it went on from to no other; the attached block alone when it went
\* no further, and nothing when there is no attached block.
C20_ReturnsLeaves ==
  lastOp.op = "unhideAll" =>
    LET reached == Visited(State, lastOp.c)
    IN /\ Range(result) = {b \in reached : Visits(State, b) = {}}
       /\ Len(result) = Cardinality(Range(result))
       /\ \A b \in Range(result) : Range(result) \cap Below(State, b) = {}
       /\ reached = {} => result = <<>>
       /\ (reached # {} /\ Visits(State, targetBlock(State, lastOp.c)) = {})
            => result = <<targetBlock(State, lastOp.c)>>

\* unhideAll has just returned two leaves, neither of them the attached block
C20_Witness ==
  /\ lastOp.op = "unhideAll"
  /\ Len(result) = 2
  /\ targetBlock(State, lastOp.c) \notin Range(result)

----------------------------------------------------------------------------
(* The validation pipeline and the values of fields *)

\* the text the class validator hands on: its result, or the proposed text
\* when it returns nothing
ClassValidated(f, text) ==
  IF classValidator(f, text) = undefined THEN text ELSE classValidator(f, text)

\* C26: callValidator(text) runs the class validator first; when it returns
\* null the result is null and the user validator is not called; otherwise the
\* user validator, if there is one, receives the class-validated text (the
\* proposed text when the class validator returns nothing); null from it makes
\* the result null, any other result replaces the text, and no result keeps it.
C26_ValidatorPipeline ==
  lastOp.op = "callValidator" =>
    LET text == lastOp.args[1]
        passed == ClassValidated(field, text)
        userResult == userValidator(field, passed)
    IN /\ Head(result.calls) = Call("classValidator", text)
       /\ classValidator(field, text) = null =>
            result = [value |-> null, calls |-> <<Call("classValidator", text)>>]
       /\ classValidator(field, text) # null /\ field.validator_ = NONE =>
            result = [value |-> passed, calls |-> <<Call("classValidator", text)>>]
       /\ classValidator(field, text) # null /\ field.validator_ # NONE =>
            /\ result.calls = <<Call("classValidator", text), Call("validator_", passed)>>
            /\ result.value = IF userResult = null THEN null
                              ELSE IF userResult = undefined THEN passed
                              ELSE userResult

\* "O2" is proposed to a numeric field with a doubling validator: the class
\* validator makes it "2" and the doubling validator makes that "4"
C26_Witness ==
  /\ lastOp.op = "callValidator"
  /\ lastOp.args[1] = TO2
  /\ field.classValidator = "number"
  /\ field.validator_ = "double"
  /\ result.value = <<"4">>

\* the effects of a render of the block followed by a bump of its neighbours
RenderThenBump ==
  <<[e |-> "render", old |-> <<>>, new |-> <<>>],
    [e |-> "bumpNeighbours", old |-> <<>>, new |-> <<>>]>>

\* C27: Field.setValue(v) with v null or equal to the current value emits no
\* notification, leaves the text unchanged and triggers no render or bump; on
\* an actual change it emits the notification (when events are recorded and the
\* field is on a block), then updates the text, then, if the block is rendered,
\* renders the block and then bumps its neighbours.
C27_SetValueOnlyOnChange ==
  [][lastOp'.op = "setValue" /\ field.class = "Field" =>
       LET v == lastOp'.args[1]
       IN IF v = null \/ v = field.text
            THEN field'.text = field.text /\ field'.log = <<>>
            ELSE /\ field'.text = v
                 /\ field'.log =
                      (IF field.sourceBlock # NONE /\ field.enabled
                         THEN <<[e |-> "change", old |-> field.text, new |-> v]>>
                         ELSE <<>>)
                      \o <<[e |-> "text", old |-> field.text, new |-> v]>>
                      \o (IF field.rendered THEN RenderThenBump ELSE <<>>)]_vars

\* a field on a rendered block has been given a new value with events on
C27_Witness ==
  /\ lastOp.op = "setValue"
  /\ field.class = "Field"
  /\ field.text = lastOp.args[1]
  /\ Len(field.log) = 4
  /\ field.log[1].e = "change"

\* C28: FieldDropdown.setValue(v), with v not null and different from the
\* current value, stores v and shows the text of the first option whose value
\* is v, or v itself when no option has that value.
C28_DropdownShowsFirstOption ==
  [][/\ lastOp'.op = "setValue"
     /\ field.class = "FieldDropdown"
     /\ lastOp'.args[1] # null
     /\ lastOp'.args[1] # field.value
     => LET v == lastOp'.args[1]
            options == field.menuGenerator_
        IN /\ field'.value = v
           /\ \/ \E i \in 1..Len(options) :
                   /\ options[i][2] = v
                   /\ \A j \in 1..(i - 1) : options[j][2] # v
                   /\ field'.text = options[i][1]
              \/ /\ \A i \in 1..Len(options) : options[i][2] # v
                 /\ field'.text = v]_vars

\* the value "k" of the options A and B has been set, and A is shown
C28_Witness ==
  /\ lastOp.op = "setValue"
  /\ field.class = "FieldDropdown"
  /\ lastOp.args[1] = <<"k">>
  /\ field.value = <<"k">>
  /\ field.text = <<"A">>

----------------------------------------------------------------------------
(* The editor of a text input *)

\* the operations that hide the widget: Enter, Tab, Escape, and the blur
Closes(op) == op.op = "blur" \/ op.op = "keydown"
Commits(op) ==
  op.op = "blur" \/ (op.op = "keydown" /\ op.args[1] \in {enterKey, tabKey})
Cancels(op) == op.op = "keydown" /\ op.args[1] = escKey

\* the operations that deliver text from the editor while it is open
Keystroke(op) == op.op \in {"keypress", "keyup", "input"}

\* how often the closure of widgetDispose_ ran in the last operation
Disposals(f) == Cardinality({i \in 1..Len(f.log) : f.log[i].e = "widgetDispose_"})

\* the Change events of the last operation
Changes(f) == {i \in 1..Len(f.log) : f.log[i].e = "change"}

\* C21: the editor of a field goes idle -> editing -> (committed | cancelled)
\* -> idle: showEditor is the only way out of idle and always opens the
\* editor; while editing, Enter, Tab and blur (commit) and Escape (cancel) each
\* close the editor exactly once and return to idle, and nothing else closes
\* it; while idle no write-back of a commit or a cancel happens.
C21_EditorLifecycle ==
  [][/\ ~field.editing =>
          /\ field'.editing <=> lastOp'.op = "showEditor"
          /\ Disposals(field') = 0
          /\ Closes(lastOp') => field'.text = field.text /\ field'.log = <<>>
     /\ field.editing =>
          /\ lastOp'.op # "showEditor"
          /\ ~field'.editing <=> Closes(lastOp')
          /\ Disposals(field') = IF Closes(lastOp') THEN 1 ELSE 0]_vars

\* the editor was opened, and Escape has closed it again
C21_Witness ==
  /\ lastOp.op = "keydown"
  /\ lastOp.args[1] = escKey
  /\ ~field.editing
  /\ Disposals(field) = 1

\* C22: on a commit with the text t in the editor, the text of the field
\* becomes callValidator(t) when that is not null, and otherwise the text the
\* field had when the editor was opened; a numeric field with a doubling
\* validator turns a committed "21" into "42" and keeps its text on "abc".
C22_CommitValidatedOrDefault ==
  [][/\ lastOp'.op = "showEditor" =>
          /\ field'.htmlInput.defaultValue = field.text
          /\ field'.htmlInput.value = field.text
     /\ field.editing /\ field'.editing =>
          field'.htmlInput.defaultValue = field.htmlInput.defaultValue
     /\ field.editing /\ Commits(lastOp') =>
          LET t == field.htmlInput.value
          IN field'.text = IF callValidator(field, t).value # null
                             THEN callValidator(field, t).value
                             ELSE field.htmlInput.defaultValue
     /\ /\ field.editing /\ Commits(lastOp')
        /\ field.classValidator = "number" /\ field.validator_ = "double"
        => /\ field.htmlInput.value = T21 => field'.text = T42
           /\ field.htmlInput.value = Tabc =>
                field'.text = field.htmlInput.defaultValue]_vars

\* "21" was typed into a numeric field with a doubling validator and Enter
\* has committed it as "42"
C22_Witness ==
  /\ lastOp.op = "keydown"
  /\ lastOp.args[1] = enterKey
  /\ field.classValidator = "number"
  /\ field.validator_ = "double"
  /\ field.text = T42

\* C23 as stated: after Escape the text of the field is the text it had when
\* the editor was opened, whatever was typed and whatever the validators are.
C23_Original ==
  [][field.editing /\ Cancels(lastOp') =>
       field'.text = field.htmlInput.defaultValue]_vars

\* C24 as stated: a keystroke whose text either validator rejects leaves the
\* text of the field alone and emits no change notification; only the editor
\* is flagged invalid.
C24_Original ==
  [][/\ field.editing
     /\ Keystroke(lastOp')
     /\ callValidator(field, field'.htmlInput.value).value = null
     => /\ field'.text = field.text
        /\ Changes(field') = {}]_vars

\* the texts an operation was asked to store
Proposed(f, g, op) ==
  IF op.op \in {"setValue", "input"} THEN {op.args[1]}
  ELSE {f.htmlInput.value, f.htmlInput.defaultValue, g.htmlInput.value}

\* C25 as stated: whenever setValue, a keystroke or a commit changes the value
\* of a field, the new value is what callValidator made of the proposed text.
C25_Original ==
  [][lastOp'.op # "setText" /\ getValue(field') # getValue(field) =>
       \E t \in Proposed(field, field', lastOp') :
         callValidator(field, t).value = getValue(field')]_vars

\* C29: a change notification is emitted only when events are recorded and the
\* field is on a block; with recording off, no setValue, setText, keystroke or
\* commit emits one.
C29_NotifiesOnlyWhenRecording ==
  [][Changes(field') # {} => field.enabled /\ field.sourceBlock # NONE]_vars

\* with recording off, "abc" was put into the editor and became the text of
\* the field without a notification
C29_Witness ==
  /\ lastOp.op = "input"
  /\ ~field.enabled
  /\ field.text = Tabc
  /\ Changes(field) = {}

\* every character of the text passes the restrictor
Matches(restrictor, text) == \A i \in 1..Len(text) : test(restrictor, text[i])

\* C30 as stated: with a restrictor set, no event of the editor makes a text
\* that does not match the restrictor the text of the field.
C30_Original ==
  [][/\ field.editing
     /\ field.restrictor_ # NONE
     /\ Keystroke(lastOp')
     /\ field'.text # field.text
     => Matches(field.restrictor_, field'.text)]_vars

----------------------------------------------------------------------------
(* The index protocol, and notifications of a text input *)

\* the errors of the index: an insert of a member, a remove of a non-member
IndexErrors ==
  {"Connection already in database.", "Connection not in database.",
   "Unable to find connection in connectionDB."}

\* C33: no sequence of moveTo, moveBy, setHidden, hideAll and unhideAll calls
\* asks the index to insert a connection that is already a member or to
\* remove one that is absent: no call ends in an error of the index, every
\* connection is in its index as often as its flag says (once or never).
C33_NoDoubleInsertNoRemoveOfAbsent ==
  /\ thrown \notin IndexErrors
  /\ \A c \in LiveConns :
       Occurrences(db[type(c)], c) = IF conn[c].inDB THEN 1 ELSE 0

\* a connection that was in the index has been moved, and a connection that
\* was shown has been shown again
C33_Witness ==
  /\ lastOp.op = "setHidden"
  /\ lastOp.args = <<FALSE>>
  /\ lastOp.was
  /\ \E c \in LiveConns : c # lastOp.c /\ conn[c].hidden /\ ~conn[c].inDB
  /\ \E c \in LiveConns : conn[c].inDB /\ conn[c].x # 0

\* C34 as stated: one FieldTextInput.setValue call that changes the value,
\* with events recorded and the field on a block, emits exactly one change
\* notification.
C34_Original ==
  [][/\ lastOp'.op = "setValue"
     /\ field.class = "FieldTextInput"
     /\ field.enabled /\ field.sourceBlock # NONE
     /\ field'.text # field.text
     => Cardinality(Changes(field')) = 1]_vars

\* C35 as stated: opening the editor and committing it without a keystroke
\* leaves the text of the field unchanged and emits no change notification,
\* whatever the validators are.
C35_Original ==
  [][lastOp.op = "showEditor" /\ Commits(lastOp') =>
       /\ field'.text = field.text
       /\ Changes(field') = {}]_vars

----------------------------------------------------------------------------
(* hideAll and unhideAll as a round trip *)

\* the connections hideAll on c reaches: c and those of the blocks below it
Reached(s, c) == {c} \cup ConnectionsOn(AttachedSubtree(s, c))

\* c spiders down, no block below it is collapsed, nothing it reaches is hidden
RoundTripCase(s, c) ==
  /\ type(c) \in {INPUT_VALUE, NEXT_STATEMENT}
  /\ \A b \in AttachedSubtree(s, c) : ~s.collapsed[b]
  /\ \A d \in Reached(s, c) : ~s.conn[d].hidden

\* the hidden flags and the members of the index are the same in s and t
SameVisibility(s, t) ==
  /\ \A d \in DOMAIN s.conn :
       /\ t.conn[d].hidden = s.conn[d].hidden
       /\ t.conn[d].inDB = s.conn[d].inDB
  /\ Members(t) = Members(s)

\* C37 as stated: for a connection of kind input-value or next-statement with
\* no collapsed block below it and nothing hidden, hideAll followed by
\* unhideAll restores the hidden flag and the index membership of every
\* connection.
C37_Original ==
  [][lastOp'.op = "hideAll" /\ RoundTripCase(State, lastOp'.c) =>
       SameVisibility(State, unhideAll(State', lastOp'.c).s)]_vars

\* C37 amended: the same, for connections that were all in the index before
\* hideAll (a connection that was shown but never placed is put into the
\* index by unhideAll).
C37_RoundTripWhenIndexed ==
  [][/\ lastOp'.op = "hideAll"
     /\ RoundTripCase(State, lastOp'.c)
     /\ \A d \in Reached(State, lastOp'.c) : conn[d].inDB
     => SameVisibility(State, unhideAll(State', lastOp'.c).s)]_vars

\* hideAll has just hidden an input that was in the index and the block in
\* it, and unhideAll brings them all back into the index
C37_Witness ==
  /\ lastOp.op = "hideAll"
  /\ lastOp.was
  /\ type(lastOp.c) = INPUT_VALUE
  /\ conn[lastOp.c].targetConnection # NONE
  /\ \A b \in live : ~collapsed[b]
  /\ \A d \in Reached(State, lastOp.c) : conn[d].hidden /\ ~conn[d].inDB
  /\ \A d \in Reached(State, lastOp.c) : unhideAll(State, lastOp.c).s.conn[d].inDB

----------------------------------------------------------------------------
(* How far a bump separates the two connections *)

\* C36 as stated: after a bumpAwayFrom_ that moves a block (this connection's
\* root or, reversed, the other side's root) the two connections are at least
\* SNAP_RADIUS apart, and when both roots are immovable nothing moves.
C36_Original ==
  [][lastOp'.op = "bumpAwayFrom_"
       => /\ ws'.moved # NotMoved
               => distanceFrom(State', lastOp'.c, lastOp'.args[1])
                    >= SNAP_RADIUS * SNAP_RADIUS
          /\ (~ws.movable[BumpThisRoot] /\ ~ws.movable[BumpStaticRoot])
               => NothingMoved]_vars

----------------------------------------------------------------------------
(* The reference count of the width cache *)

\* C40: over startCache and stopCache calls in which every stopCache matches
\* an earlier startCache, the width cache exists exactly when the reference
\* count is positive: the first start creates it, a nested start and a nested
\* stop leave it and its entries alone, and the last matching stop releases
\* it.
C40_CacheExistsIffReferenced ==
  /\ [](~cacheWidths_.isNull <=> cacheReference_ > 0)
  /\ [][/\ (lastOp'.op = "startCache" /\ cacheReference_ = 0)
             => cacheWidths_' = EmptyWidths
        /\ (lastOp'.op = "startCache" /\ cacheReference_ > 0)
             => cacheWidths_' = cacheWidths_
        /\ (lastOp'.op = "stopCache" /\ cacheReference_ > 1)
             => cacheWidths_' = cacheWidths_
        /\ (lastOp'.op = "stopCache" /\ cacheReference_ = 1)
             => cacheWidths_' = NullWidths]_vars

\* a nested stopCache has just returned and the cache still holds a width
C40_Witness ==
  /\ lastOp.op = "stopCache"
  /\ cacheReference_ = 1
  /\ ~cacheWidths_.isNull
  /\ Len(cacheWidths_.entries) > 0

----------------------------------------------------------------------------
(* Tightening, connecting and respawning: errors and calls into the renderer *)

\* the two sides of the pair that the step tightens lie apart
TightenApart ==
  LET target == conn[lastOp'.c].targetConnection
  IN conn[target].x # conn[lastOp'.c].x \/ conn[target].y # conn[lastOp'.c].y

\* the step leaves positions, index and block transforms as they were
NothingShifted == conn' = conn /\ db' = db /\ ws'.xy = ws.xy

CallsBy(by) == SelectSeq(ws.log, LAMBDA e : e.by = by)

\* the blocks the method asked the renderer to lay out, in order
RendersBy(by) ==
  LET renders == SelectSeq(CallsBy(by), LAMBDA e : e.method = "render")
  IN [i \in 1..Len(renders) |-> renders[i].block]

\* every updateDisabled of the method comes before its first render
DisabledBeforeRender(by) ==
  \A i, j \in 1..Len(CallsBy(by)) :
    (CallsBy(by)[i].method = "render" /\ CallsBy(by)[j].method = "updateDisabled")
      => j < i

UpdatedBy(by) == {e.block : e \in {x \in Range(CallsBy(by)) : x.method = "updateDisabled"}}

RespawnActs ==
  /\ ws.workspace[sourceBlock(lastOp'.c)]
  /\ ws.shadowDom[lastOp'.c] # NONE
  /\ ws.recordUndo

RespawnMessage == "Couldn't respawn the shadow block that should exist here."

\* C31: respawnShadow acts only when the parent block is in a workspace, the
\* connection has a stored shadow template and undo recording is active; when
\* one of the three fails it changes nothing; when it acts and no block is
\* attached afterwards it throws before any call into the renderer; when a
\* block is attached it initialises and lays out that block, then lays out
\* the parent block if that is rendered.
C31_RespawnGuardedAndFatal ==
  [][lastOp'.op = "respawnShadow" =>
       LET c == lastOp'.c
           parentBlock == sourceBlock(c)
           blockShadow == targetBlock(State', c)
       IN /\ ~RespawnActs
               => /\ thrown' = NONE
                  /\ live' = live /\ conn' = conn /\ db' = db
                  /\ collapsed' = collapsed
                  /\ ws' = [ws EXCEPT !.moved = NotMoved, !.log = <<>>]
          /\ (RespawnActs /\ blockShadow = NONE)
               => /\ thrown' = RespawnMessage
                  /\ ws'.log = <<>>
                  /\ ws'.rendered = ws.rendered
          /\ (RespawnActs /\ blockShadow # NONE)
               => /\ thrown' = NONE
                  /\ SelectSeq(ws'.log, LAMBDA e : e.by = "respawnShadow")
                       = <<[method |-> "initSvg", block |-> blockShadow,
                            by |-> "respawnShadow"],
                           [method |-> "render", block |-> blockShadow,
                            by |-> "respawnShadow"]>>
                          \o (IF ws.rendered[parentBlock]
                              THEN <<[method |-> "render", block |-> parentBlock,
                                      by |-> "respawnShadow"]>>
                              ELSE <<>>)]_vars

\* respawnShadow has just thrown on the input of b2: it had a template, its
\* block was in a workspace, undo recording was on, and no block came
C31_Witness ==
  /\ lastOp.op = "respawnShadow"
  /\ lastOp.c = "in2"
  /\ thrown = RespawnMessage
  /\ ws.workspace["b2"] /\ ws.shadowDom["in2"] = "b4" /\ ws.recordUndo
  /\ conn["in2"].targetConnection = NONE
  /\ ws.log = <<>>

====
